---- MODULE Spec2Model ----
(***************************************************************************)
(* Crossword layout generator (multi-strategy revision) and its callers.   *)
(*                                                                         *)
(* A word is a sequence of one-character strings, a grid is a sequence of  *)
(* rows, each a sequence of cells; a cell is NULL or a character.  Rows    *)
(* and columns keep the 0-based coordinates of the code: At(grid, r, c)    *)
(* is grid[r][c].                                                          *)
(***************************************************************************)
EXTENDS Integers, Sequences, FiniteSets, TLC

\* ------------------------------------------------------------------ bounds

\* The largest number of words in one generation request.
MaxWords == 3
\* The largest grid width and height of a request (each from 1).
MaxDim == 3
\* The most letters on a grid isValidPlacement is called with directly.
MaxFilled == 2
\* The largest number of selection or grid changes seen by CrosswordGrid.
MaxChanges == 3

\* ------------------------------------------------------------ characters

NULL == "null"

LowerAlphabet ==
  << "a", "b", "c", "d", "e", "f", "g", "h", "i", "j", "k", "l", "m",
     "n", "o", "p", "q", "r", "s", "t", "u", "v", "w", "x", "y", "z" >>
UpperAlphabet ==
  << "A", "B", "C", "D", "E", "F", "G", "H", "I", "J", "K", "L", "M",
     "N", "O", "P", "Q", "R", "S", "T", "U", "V", "W", "X", "Y", "Z" >>

UpperLetters == {UpperAlphabet[n] : n \in 1..Len(UpperAlphabet)}
LowerLetters == {LowerAlphabet[n] : n \in 1..Len(LowerAlphabet)}
Whitespace == {" "}

\* String.prototype.toUpperCase on one character.
UpperChar(ch) ==
  IF ch \in LowerLetters
    THEN UpperAlphabet[CHOOSE n \in 1..Len(LowerAlphabet) : LowerAlphabet[n] = ch]
    ELSE ch

\* Mutant of ToUpperCase: the case is left as typed.
ToUpperCaseKeepsCase(w) == w

\* w.toUpperCase()
ToUpperCase(w) == [n \in 1..Len(w) |-> UpperChar(w[n])]

RECURSIVE TrimStart(_)
TrimStart(w) ==
  IF w = <<>> THEN <<>>
  ELSE IF Head(w) \in Whitespace THEN TrimStart(Tail(w)) ELSE w

RECURSIVE TrimEnd(_)
TrimEnd(w) ==
  IF w = <<>> THEN <<>>
  ELSE IF w[Len(w)] \in Whitespace THEN TrimEnd(SubSeq(w, 1, Len(w) - 1)) ELSE w

\* w.trim()
Trim(w) == TrimEnd(TrimStart(w))

\* words.map(w => w.toUpperCase().trim()).filter(w => w.length > 0)
CleanWords(ws) ==
  SelectSeq([n \in 1..Len(ws) |-> Trim(ToUpperCase(ws[n]))], LAMBDA w : Len(w) > 0)

\* ------------------------------------------------------------------ sorting

\* Array.prototype.sort is stable: x goes before the first element it must
\* strictly precede.
RECURSIVE InsertDesc(_, _)
InsertDesc(sorted, x) ==
  IF sorted = <<>> THEN <<x>>
  ELSE IF Len(x) > Len(Head(sorted)) THEN <<x>> \o sorted
  ELSE <<Head(sorted)>> \o InsertDesc(Tail(sorted), x)

RECURSIVE SortByLengthDesc(_)
\* [...cleanedWords].sort((a, b) => b.length - a.length)
SortByLengthDesc(ws) ==
  IF ws = <<>> THEN <<>>
  ELSE InsertDesc(SortByLengthDesc(SubSeq(ws, 1, Len(ws) - 1)), ws[Len(ws)])

RECURSIVE InsertAsc(_, _)
InsertAsc(sorted, x) ==
  IF sorted = <<>> THEN <<x>>
  ELSE IF Len(x) < Len(Head(sorted)) THEN <<x>> \o sorted
  ELSE <<Head(sorted)>> \o InsertAsc(Tail(sorted), x)

RECURSIVE SortByLengthAsc(_)
\* [...cleanedWords].sort((a, b) => a.length - b.length)
SortByLengthAsc(ws) ==
  IF ws = <<>> THEN <<>>
  ELSE InsertAsc(SortByLengthAsc(SubSeq(ws, 1, Len(ws) - 1)), ws[Len(ws)])

\* --------------------------------------------------------------------- grid

\* Array(height).fill(null).map(() => Array(width).fill(null))
createEmptyGrid(w, h) == [r \in 1..h |-> [c \in 1..w |-> NULL]]

GridHeight(g) == Len(g)
GridWidth(g) == Len(g[1])

\* grid[r][c], 0-based
At(g, r, c) == g[r + 1][c + 1]

\* word[i], 0-based
Ch(word, i) == word[i + 1]

\* The cell of letter i of a word laid at (row, col).
CellRow(row, isHorizontal, i) == IF isHorizontal THEN row ELSE row + i
CellCol(col, isHorizontal, i) == IF isHorizontal THEN col + i ELSE col

\* ------------------------------------------------------ placement validator

\* "Check bounds": the first block of isValidPlacement.
OutOfBounds(grid, word, row, col, isHorizontal) ==
  LET width == GridWidth(grid)
      height == GridHeight(grid)
  IN  IF isHorizontal
        THEN (col < 0 \/ col + Len(word) > width) \/ (row < 0 \/ row >= height)
        ELSE (row < 0 \/ row + Len(word) > height) \/ (col < 0 \/ col >= width)

\* "Check for cell before word (should be empty or boundary)".
BeforeOccupied(grid, word, row, col, isHorizontal) ==
  IF isHorizontal
    THEN col > 0 /\ At(grid, row, col - 1) # NULL
    ELSE row > 0 /\ At(grid, row - 1, col) # NULL

\* "Check for cell after word (should be empty or boundary)".
AfterOccupied(grid, word, row, col, isHorizontal) ==
  LET width == GridWidth(grid)
      height == GridHeight(grid)
  IN  IF isHorizontal
        THEN col + Len(word) < width /\ At(grid, row, col + Len(word)) # NULL
        ELSE row + Len(word) < height /\ At(grid, row + Len(word), col) # NULL

\* Mutant of ParallelNeighbour: the far neighbour is looked up only when
\* r < height - 2 (c < width - 2), so the last one is taken for empty.
ParallelNeighbourShortOfEdge(grid, r, c, isHorizontal) ==
  LET width == GridWidth(grid)
      height == GridHeight(grid)
  IN  IF isHorizontal
        THEN LET above == IF r > 0 THEN At(grid, r - 1, c) ELSE NULL
                 below == IF r < height - 2 THEN At(grid, r + 1, c) ELSE NULL
             IN  above # NULL \/ below # NULL
        ELSE LET left == IF c > 0 THEN At(grid, r, c - 1) ELSE NULL
                 right == IF c < width - 2 THEN At(grid, r, c + 1) ELSE NULL
             IN  left # NULL \/ right # NULL

\* The perpendicular neighbours of an empty cell (r, c): one of them is filled.
ParallelNeighbour(grid, r, c, isHorizontal) ==
  LET width == GridWidth(grid)
      height == GridHeight(grid)
  IN  IF isHorizontal
        THEN LET above == IF r > 0 THEN At(grid, r - 1, c) ELSE NULL
                 below == IF r < height - 1 THEN At(grid, r + 1, c) ELSE NULL
             IN  above # NULL \/ below # NULL
        ELSE LET left == IF c > 0 THEN At(grid, r, c - 1) ELSE NULL
                 right == IF c < width - 1 THEN At(grid, r, c + 1) ELSE NULL
             IN  left # NULL \/ right # NULL

RECURSIVE LettersLoopMatchesOnly(_, _, _, _, _, _)
\* Mutant of LettersLoop: an empty cell is accepted without a look at its
\* perpendicular neighbours.
LettersLoopMatchesOnly(grid, word, row, col, isHorizontal, i) ==
  IF i >= Len(word) THEN TRUE
  ELSE LET currentCell == At(grid, CellRow(row, isHorizontal, i),
                                   CellCol(col, isHorizontal, i))
       IN  IF currentCell # NULL /\ currentCell # Ch(word, i) THEN FALSE
           ELSE LettersLoopMatchesOnly(grid, word, row, col, isHorizontal, i + 1)

RECURSIVE LettersLoop(_, _, _, _, _, _)
\* for (let i = 0; i < word.length; i++) { ... } of isValidPlacement, from i on.
LettersLoop(grid, word, row, col, isHorizontal, i) ==
  IF i >= Len(word) THEN TRUE
  ELSE LET r == CellRow(row, isHorizontal, i)
           c == CellCol(col, isHorizontal, i)
           currentCell == At(grid, r, c)
       IN  IF currentCell # NULL
             THEN IF currentCell # Ch(word, i) THEN FALSE
                  ELSE LettersLoop(grid, word, row, col, isHorizontal, i + 1)
             ELSE IF ParallelNeighbour(grid, r, c, isHorizontal) THEN FALSE
                  ELSE LettersLoop(grid, word, row, col, isHorizontal, i + 1)

isValidPlacement(grid, word, row, col, isHorizontal) ==
  IF OutOfBounds(grid, word, row, col, isHorizontal) THEN FALSE
  ELSE IF BeforeOccupied(grid, word, row, col, isHorizontal) THEN FALSE
  ELSE IF AfterOccupied(grid, word, row, col, isHorizontal) THEN FALSE
  ELSE LettersLoop(grid, word, row, col, isHorizontal, 0)

\* ------------------------------------------------------------ placeWord

\* Mutant of placeWord: the loop starts at i = 1, the first letter is not written.
placeWordSkipsFirst(grid, word, row, col, isHorizontal) ==
  [r \in 1..Len(grid) |->
    [c \in 1..Len(grid[r]) |->
      IF \E i \in 1..(Len(word) - 1) :
           /\ CellRow(row, isHorizontal, i) = r - 1
           /\ CellCol(col, isHorizontal, i) = c - 1
        THEN Ch(word, CHOOSE i \in 1..(Len(word) - 1) :
                        /\ CellRow(row, isHorizontal, i) = r - 1
                        /\ CellCol(col, isHorizontal, i) = c - 1)
        ELSE grid[r][c]]]

\* A copy of the grid with the letters of the word written from (row, col).
placeWord(grid, word, row, col, isHorizontal) ==
  [r \in 1..Len(grid) |->
    [c \in 1..Len(grid[r]) |->
      IF \E i \in 0..(Len(word) - 1) :
           /\ CellRow(row, isHorizontal, i) = r - 1
           /\ CellCol(col, isHorizontal, i) = c - 1
        THEN Ch(word, CHOOSE i \in 0..(Len(word) - 1) :
                        /\ CellRow(row, isHorizontal, i) = r - 1
                        /\ CellCol(col, isHorizontal, i) = c - 1)
        ELSE grid[r][c]]]

\* --------------------------------------------------------- placement search

\* The weight of one intersection in scorePlacement.
IntersectionWeight == 100

Abs(x) == IF x < 0 THEN 0 - x ELSE x

\* "Count intersections for scoring".
CountIntersections(grid, word, row, col, isHorizontal) ==
  Cardinality({k \in 0..(Len(word) - 1) :
     At(grid, CellRow(row, isHorizontal, k), CellCol(col, isHorizontal, k)) # NULL})

\* Twice distanceFromCenter: the code's centres are halves (height / 2,
\* row + word.length / 2), so the doubled distance is an integer.
DistanceFromCenter2(grid, word, row, col, isHorizontal) ==
  LET width == GridWidth(grid)
      height == GridHeight(grid)
      wordCenterRow2 == IF isHorizontal THEN 2 * row ELSE 2 * row + Len(word)
      wordCenterCol2 == IF isHorizontal THEN 2 * col + Len(word) ELSE 2 * col
  IN  Abs(wordCenterRow2 - height) + Abs(wordCenterCol2 - width)

\* Mutant of FirstWordRow: the row of a horizontal first word is taken from the
\* width.
FirstWordRowFromWidth(grid, word, firstWordHorizontal) ==
  IF firstWordHorizontal THEN GridWidth(grid) \div 2
  ELSE (GridHeight(grid) - Len(word)) \div 2

\* The candidate of the first word: centered, in the seed orientation.
FirstWordRow(grid, word, firstWordHorizontal) ==
  IF firstWordHorizontal THEN GridHeight(grid) \div 2
  ELSE (GridHeight(grid) - Len(word)) \div 2

FirstWordCol(grid, word, firstWordHorizontal) ==
  IF firstWordHorizontal THEN (GridWidth(grid) - Len(word)) \div 2
  ELSE GridWidth(grid) \div 2

\* Mutant of CrossingOrientation: the negation is missing, the candidate runs
\* along the placed word.
CrossingOrientationParallel(placement) == placement.isHorizontal

\* The position that puts word[i] on cell j of a placed word, across it.
CrossingOrientation(placement) == ~placement.isHorizontal

CrossingRow(placement, i, j) ==
  IF CrossingOrientation(placement) THEN placement.row + j ELSE placement.row - i

CrossingCol(placement, i, j) ==
  IF CrossingOrientation(placement) THEN placement.col - i ELSE placement.col + j

\* Mutant of TryCrossing: the candidate is validated against a blank grid, not
\* against the grid as it is now.
TryCrossingStaleGrid(grid, word, placement, i, j, validPlacements) ==
  LET isHorizontal == CrossingOrientation(placement)
      row == CrossingRow(placement, i, j)
      col == CrossingCol(placement, i, j)
      blank == createEmptyGrid(GridWidth(grid), GridHeight(grid))
  IN  IF isValidPlacement(blank, word, row, col, isHorizontal)
        THEN IF \E n \in 1..Len(validPlacements) :
                  /\ validPlacements[n].row = row
                  /\ validPlacements[n].col = col
                  /\ validPlacements[n].isHorizontal = isHorizontal
               THEN validPlacements
               ELSE Append(validPlacements,
                      [row |-> row, col |-> col, isHorizontal |-> isHorizontal,
                       intersections |->
                         CountIntersections(grid, word, row, col, isHorizontal),
                       distanceFromCenter2 |->
                         DistanceFromCenter2(grid, word, row, col, isHorizontal)])
        ELSE validPlacements

\* The body of "if (word[i] === placedWord[j])": validPlacements after it.
TryCrossing(grid, word, placement, i, j, validPlacements) ==
  LET isHorizontal == CrossingOrientation(placement)
      row == CrossingRow(placement, i, j)
      col == CrossingCol(placement, i, j)
  IN  IF isValidPlacement(grid, word, row, col, isHorizontal)
        THEN IF \E n \in 1..Len(validPlacements) :
                  /\ validPlacements[n].row = row
                  /\ validPlacements[n].col = col
                  /\ validPlacements[n].isHorizontal = isHorizontal
               THEN validPlacements
               ELSE Append(validPlacements,
                      [row |-> row, col |-> col, isHorizontal |-> isHorizontal,
                       intersections |->
                         CountIntersections(grid, word, row, col, isHorizontal),
                       distanceFromCenter2 |->
                         DistanceFromCenter2(grid, word, row, col, isHorizontal)])
        ELSE validPlacements

RECURSIVE CrossingLoop(_, _, _, _, _, _, _)
\* The three nested loops over placements (p, 1-based), i and j (0-based).
CrossingLoop(grid, word, placements, p, i, j, validPlacements) ==
  IF p > Len(placements) THEN validPlacements
  ELSE IF i >= Len(word)
    THEN CrossingLoop(grid, word, placements, p + 1, 0, 0, validPlacements)
  ELSE IF j >= Len(placements[p].word)
    THEN CrossingLoop(grid, word, placements, p, i + 1, 0, validPlacements)
  ELSE CrossingLoop(grid, word, placements, p, i, j + 1,
         IF Ch(word, i) = Ch(placements[p].word, j)
           THEN TryCrossing(grid, word, placements[p], i, j, validPlacements)
           ELSE validPlacements)

findValidPlacements(grid, word, placements, isFirstWord, firstWordHorizontal) ==
  IF isFirstWord
    THEN LET row == FirstWordRow(grid, word, firstWordHorizontal)
             col == FirstWordCol(grid, word, firstWordHorizontal)
         IN  IF isValidPlacement(grid, word, row, col, firstWordHorizontal)
               THEN << [row |-> row, col |-> col,
                        isHorizontal |-> firstWordHorizontal,
                        intersections |-> 0, distanceFromCenter2 |-> 0] >>
               ELSE <<>>
    ELSE CrossingLoop(grid, word, placements, 1, 0, 0, <<>>)

\* Mutant of scorePlacement2: an intersection weighs 10, not 100.
scorePlacementWeighsTen(placement) ==
  placement.intersections * 10 * 2 - placement.distanceFromCenter2

\* Twice scorePlacement (the distance is kept doubled).
scorePlacement2(placement) ==
  placement.intersections * IntersectionWeight * 2 - placement.distanceFromCenter2

RECURSIVE InsertByScoreLastTie(_, _)
\* Mutant of InsertByScore: a candidate moves ahead of one with an equal score,
\* so among equal scores the one generated last comes first.
InsertByScoreLastTie(sorted, x) ==
  IF sorted = <<>> THEN <<x>>
  ELSE IF scorePlacement2(x) >= scorePlacement2(Head(sorted)) THEN <<x>> \o sorted
  ELSE <<Head(sorted)>> \o InsertByScoreLastTie(Tail(sorted), x)

RECURSIVE InsertByScore(_, _)
InsertByScore(sorted, x) ==
  IF sorted = <<>> THEN <<x>>
  ELSE IF scorePlacement2(x) > scorePlacement2(Head(sorted)) THEN <<x>> \o sorted
  ELSE <<Head(sorted)>> \o InsertByScore(Tail(sorted), x)

RECURSIVE SortByScore(_)
\* validPlacements.sort((a, b) => scorePlacement(b) - scorePlacement(a)), stable
SortByScore(ps) ==
  IF ps = <<>> THEN <<>>
  ELSE InsertByScore(SortByScore(SubSeq(ps, 1, Len(ps) - 1)), ps[Len(ps)])

\* const best = validPlacements[0] after the sort
BestPlacement(validPlacements) == SortByScore(validPlacements)[1]

\* ----------------- placement search of utils/crosswordGenerator.js (App's)

\* The body of "if (word[i] === placedWord[j])" in crosswordGenerator.js: every
\* valid candidate is pushed, there is no test for a placement found before.
utilsTryCrossing(grid, word, placement, i, j, validPlacements) ==
  LET isHorizontal == CrossingOrientation(placement)
      row == CrossingRow(placement, i, j)
      col == CrossingCol(placement, i, j)
  IN  IF isValidPlacement(grid, word, row, col, isHorizontal)
        THEN Append(validPlacements,
               [row |-> row, col |-> col, isHorizontal |-> isHorizontal,
                intersections |->
                  CountIntersections(grid, word, row, col, isHorizontal),
                distanceFromCenter2 |->
                  DistanceFromCenter2(grid, word, row, col, isHorizontal)])
        ELSE validPlacements

RECURSIVE utilsCrossingLoop(_, _, _, _, _, _, _)
\* Its three nested loops over placements (p, 1-based), i and j (0-based).
utilsCrossingLoop(grid, word, placements, p, i, j, validPlacements) ==
  IF p > Len(placements) THEN validPlacements
  ELSE IF i >= Len(word)
    THEN utilsCrossingLoop(grid, word, placements, p + 1, 0, 0, validPlacements)
  ELSE IF j >= Len(placements[p].word)
    THEN utilsCrossingLoop(grid, word, placements, p, i + 1, 0, validPlacements)
  ELSE utilsCrossingLoop(grid, word, placements, p, i, j + 1,
         IF Ch(word, i) = Ch(placements[p].word, j)
           THEN utilsTryCrossing(grid, word, placements[p], i, j, validPlacements)
           ELSE validPlacements)

\* findValidPlacements(grid, word, placements) of crosswordGenerator.js: the
\* first word is the one searched while placements is empty, and it is
\* centered across (its candidate has no distanceFromCenter).
utilsFindValidPlacements(grid, word, placements) ==
  IF Len(placements) = 0
    THEN LET row == FirstWordRow(grid, word, TRUE)
             col == FirstWordCol(grid, word, TRUE)
         IN  IF isValidPlacement(grid, word, row, col, TRUE)
               THEN << [row |-> row, col |-> col, isHorizontal |-> TRUE,
                        intersections |-> 0] >>
               ELSE <<>>
    ELSE utilsCrossingLoop(grid, word, placements, 1, 0, 0, <<>>)

\* ------------------------------------------------------------------ shuffle

\* result with result[i] and result[j] exchanged (0-based).
Swap(result, i, j) ==
  [n \in 1..Len(result) |->
    IF n = i + 1 THEN result[j + 1]
    ELSE IF n = j + 1 THEN result[i + 1]
    ELSE result[n]]

\* The values Math.floor(Math.random() * (i + 1)) can take for i = n-1 .. 1.
ShuffleDraws(n) ==
  {d \in [1..(n - 1) -> 0..(n - 1)] : \A i \in 1..(n - 1) : d[i] <= i}

RECURSIVE ShuffleLoop(_, _, _)
\* for (let i = result.length - 1; i > 0; i--), from i down, with the draws.
ShuffleLoop(result, i, draws) ==
  IF i > 0 THEN ShuffleLoop(Swap(result, i, draws[i]), i - 1, draws)
  ELSE result

\* shuffle(array) when Math.random yields the draws.
shuffle(array, draws) == ShuffleLoop(array, Len(array) - 1, draws)

\* ------------------------------------------------------------------- replay

RECURSIVE WriteLetters(_, _, _)
\* handleLoad's inner loop: the letters of one placement written from letter i
\* on, each only when r < gridHeight && c < gridWidth.
WriteLetters(loadedGrid, placement, i) ==
  IF i >= Len(placement.word) THEN loadedGrid
  ELSE LET r == CellRow(placement.row, placement.isHorizontal, i)
           c == CellCol(placement.col, placement.isHorizontal, i)
       IN  WriteLetters(
             IF r < Len(loadedGrid) /\ c < Len(loadedGrid[1])
               THEN [loadedGrid EXCEPT ![r + 1][c + 1] = Ch(placement.word, i)]
               ELSE loadedGrid,
             placement, i + 1)

RECURSIVE ReplayFrom(_, _, _)
\* for (const placement of data.placements), from placement n on.
ReplayFrom(loadedGrid, savedPlacements, n) ==
  IF n > Len(savedPlacements) THEN loadedGrid
  ELSE ReplayFrom(WriteLetters(loadedGrid, savedPlacements[n], 0),
                  savedPlacements, n + 1)

\* The grid handleLoad reconstructs from saved placements.
ReconstructGrid(savedPlacements, gridWidth, gridHeight) ==
  ReplayFrom(createEmptyGrid(gridWidth, gridHeight), savedPlacements, 1)

\* ---------------------------------------- ExportPanel: getPlacementsFromGrid

\* while (c < width && grid[r][c] !== null) { word += grid[r][c]; c++ }, and
\* the same down a column.
RECURSIVE ReadRun(_, _, _, _)
ReadRun(g, r, c, isHorizontal) ==
  IF r < GridHeight(g) /\ c < GridWidth(g) /\ At(g, r, c) # NULL
    THEN <<At(g, r, c)>>
           \o ReadRun(g, CellRow(r, isHorizontal, 1), CellCol(c, isHorizontal, 1),
                      isHorizontal)
    ELSE <<>>

\* The shortest word that is saved: if (word.length > 1).
SavedWordAbove == 1

\* placementsList.push({ word, row, col, isHorizontal }) if (word.length > 1)
PushRun(placementsList, word, r, c, isHorizontal) ==
  IF Len(word) > SavedWordAbove
    THEN Append(placementsList,
                [word |-> word, row |-> r, col |-> c,
                 isHorizontal |-> isHorizontal])
    ELSE placementsList

\* "Across": for each row, the runs of letters from left to right.
RECURSIVE AcrossScan(_, _, _, _)
AcrossScan(g, r, c, placementsList) ==
  IF r >= GridHeight(g) THEN placementsList
  ELSE IF c >= GridWidth(g) THEN AcrossScan(g, r + 1, 0, placementsList)
  ELSE IF At(g, r, c) # NULL
    THEN LET word == ReadRun(g, r, c, TRUE)
         IN  AcrossScan(g, r, c + Len(word),
                        PushRun(placementsList, word, r, c, TRUE))
    ELSE AcrossScan(g, r, c + 1, placementsList)

\* "Down": for each column, the runs of letters from top to bottom.
RECURSIVE DownScan(_, _, _, _)
DownScan(g, r, c, placementsList) ==
  IF c >= GridWidth(g) THEN placementsList
  ELSE IF r >= GridHeight(g) THEN DownScan(g, 0, c + 1, placementsList)
  ELSE IF At(g, r, c) # NULL
    THEN LET word == ReadRun(g, r, c, FALSE)
         IN  DownScan(g, r + Len(word), c,
                      PushRun(placementsList, word, r, c, FALSE))
    ELSE DownScan(g, r + 1, c, placementsList)

\* getPlacementsFromGrid() on the grid g.
getPlacementsFromGrid(g) == DownScan(g, 0, 0, AcrossScan(g, 0, 0, <<>>))

\* -------------------------------------------------------------------- state

VARIABLES
  inputWords,           \* generateCrossword's argument words
  width, height,        \* its arguments width and height
  pc,                   \* where the call is
  cleanedWords,         \* const cleanedWords
  strategy,             \* the number of the attempt started last (0: none)
  shuffled,             \* const shuffled of the current shuffle round
  words,                \* attemptPlacement's argument words
  firstWordHorizontal,  \* attemptPlacement's argument firstWordHorizontal
  grid, placements, unplacedWords,   \* attemptPlacement's locals
  i,                    \* index of the first pass
  madeProgress, stillUnplaced,
  k,                    \* index of for (const word of unplacedWords)
  bestResult,           \* <<>> for null, <<result>> otherwise
  returned,             \* <<>> until generateCrossword returns, then <<result>>
  bestFrom,             \* history: the attempt bestResult was assigned from
  maxPlaced,            \* history: most words any returned attempt placed
  firstMaxAt,           \* history: the first attempt that placed maxPlaced
  allPlacedAt,          \* history: first attempt that returned nothing unplaced
  lastCommit,           \* history: <<>> or <<the last commit of this attempt>>
  vGrid, vWord,         \* a grid and a word isValidPlacement is called with
  vCall,                \* <<>> or <<the position of a call and what it returned>>
  nGrid,                \* the argument of generateNumbering: <<>> or <<grid>>
  nCall, nAgain,        \* <<>> or <<what the first, the second call returned>>
  error,                \* "" or the error generateCrossword threw
  selection,            \* CrosswordGrid: the pattern selected, "" for none
  changes,              \* history: how many times the selection has changed
  debounceTimer,        \* <<>> or <<the lookup the pending timer will start>>
  inFlight,             \* the lookups fetched and not yet answered
  suggestions,          \* <<>> for {} or <<the lookup whose answer is shown>>
  isLoadingSuggestions,
  appGrid,              \* App's state grid: <<>> for null, <<g>> for a grid g
  cellNumbers, acrossWords, downWords,   \* App's stored numbering
  gridWidth, gridHeight,                 \* App's grid settings
  appPc,                \* "ready", or "shifting" inside shiftGrid's while loop
  opCount,              \* history: the number of App operations so far
  lastOp,               \* history: the operation handled last ("" for none)
  lastLoad,             \* history: <<>>, or <<what the last handleLoad did>>
  lastKey,              \* history: <<>>, or <<the cells and letter of the key
                        \* event handled last>>
  deferred,             \* history: the words the first pass of the current
                        \* attempt left in unplacedWords
  sweeps                \* history: the retry sweeps the current attempt has
                        \* entered

vars == << inputWords, width, height, pc, cleanedWords, strategy, shuffled,
           words, firstWordHorizontal, grid, placements, unplacedWords, i,
           madeProgress, stillUnplaced, k, bestResult, returned,
           bestFrom, maxPlaced, firstMaxAt, allPlacedAt, lastCommit,
           vGrid, vWord, vCall, nGrid, nCall, nAgain, error,
           selection, changes, debounceTimer, inFlight, suggestions,
           isLoadingSuggestions,
           appGrid, cellNumbers, acrossWords, downWords, gridWidth, gridHeight,
           appPc, opCount, lastOp, lastLoad, lastKey, deferred, sweeps >>

\* The raw words a request is drawn from: upper and lower case, padded,
\* blank, sharing letters or not.
PoolOrder ==
  << <<"C", "A", "T">>, <<"D", "O", "G">>, <<"A">>, <<"c", "a">>,
     <<"T", "A">>, <<" ", "t", "a">>, <<" ">> >>

WordPool == { PoolOrder[n] : n \in 1..Len(PoolOrder) }

PoolIndex(w) == CHOOSE n \in 1..Len(PoolOrder) : PoolOrder[n] = w

\* The requests: up to MaxWords different raw words, in the order of the pool
\* or in the reverse of it (each attempt reorders them).
WordLists ==
  UNION { {ws \in [1..n -> WordPool] :
             \/ \A a \in 1..n : \A b \in 1..n :
                  a < b => PoolIndex(ws[a]) < PoolIndex(ws[b])
             \/ \A a \in 1..n : \A b \in 1..n :
                  a < b => PoolIndex(ws[a]) > PoolIndex(ws[b])} :
          n \in 0..MaxWords }

\* CrosswordGrid as mounted: nothing selected, no lookup.
NoSelection ==
  /\ selection = ""
  /\ changes = 0
  /\ debounceTimer = <<>>
  /\ inFlight = {}
  /\ suggestions = <<>>
  /\ isLoadingSuggestions = FALSE

\* useState(15) for gridWidth and gridHeight, on the scale of the model.
DefaultGridSize == MaxDim

\* App as mounted: no grid, no numbering, the default grid settings.
AppMounted ==
  /\ appGrid = <<>>
  /\ cellNumbers = <<>>
  /\ acrossWords = <<>>
  /\ downWords = <<>>
  /\ gridWidth = DefaultGridSize
  /\ gridHeight = DefaultGridSize
  /\ appPc = "ready"
  /\ opCount = 0
  /\ lastOp = ""
  /\ lastLoad = <<>>
  /\ lastKey = <<>>

\* The user interface as mounted.
NoUi == NoSelection /\ AppMounted

\* No call of isValidPlacement from outside the generator.
NoValidatorCall ==
  /\ vGrid = <<>>
  /\ vWord = <<>>
  /\ vCall = <<>>
  /\ nGrid = <<>>
  /\ nCall = <<>>
  /\ nAgain = <<>>
  /\ error = ""
  /\ NoUi

\* The locals and the history of generateCrossword before it has run.
GeneratorAt(start) ==
  /\ pc = start
  /\ cleanedWords = <<>>
  /\ strategy = 0
  /\ shuffled = <<>>
  /\ words = <<>>
  /\ firstWordHorizontal = TRUE
  /\ grid = <<>>
  /\ placements = <<>>
  /\ unplacedWords = <<>>
  /\ i = 0
  /\ madeProgress = FALSE
  /\ stillUnplaced = <<>>
  /\ k = 0
  /\ bestResult = <<>>
  /\ returned = <<>>
  /\ bestFrom = 0
  /\ maxPlaced = 0
  /\ firstMaxAt = 0
  /\ allPlacedAt = 0
  /\ lastCommit = <<>>
  /\ deferred = 0
  /\ sweeps = 0

Init ==
  /\ inputWords \in WordLists
  /\ width \in 1..MaxDim
  /\ height \in 1..MaxDim
  /\ GeneratorAt("clean")
  /\ NoValidatorCall

localVars == << firstWordHorizontal, grid, placements, unplacedWords,
                i, madeProgress, stillUnplaced, k, lastCommit >>
attemptVars == << words, localVars >>
numberingVars == << nGrid, nCall, nAgain >>
suggestVars == << selection, changes, debounceTimer, inFlight, suggestions,
                  isLoadingSuggestions >>
storedNumbering == << cellNumbers, acrossWords, downWords >>
appVars == << appGrid, storedNumbering, gridWidth, gridHeight, appPc, opCount,
             lastOp, lastLoad, lastKey >>
uiVars == << suggestVars, appVars >>
validatorVars == << vGrid, vWord, vCall, numberingVars, error, uiVars >>
inputVars == << inputWords, width, height, validatorVars >>
resultHistory == << bestFrom, maxPlaced, firstMaxAt, allPlacedAt >>
sweepHistory == << deferred, sweeps >>
historyVars == << resultHistory, sweepHistory >>

\* --------------------------------------------------------- generateCrossword

\* for (let i = 0; i < 4; i++): the number of shuffle rounds.
ShuffleRounds == 4

\* The deterministic attempts before the shuffle rounds.
SortedStrategies == 4

LastStrategy == SortedStrategies + 2 * ShuffleRounds

\* Mutant of SortedOrder: attempts 3 and 4 reuse sortedByLength.
SortedOrderAlwaysLongest(n) == SortByLengthDesc(cleanedWords)

\* The words argument of sorted attempt n (1..4).
SortedOrder(n) ==
  IF n <= 2 THEN SortByLengthDesc(cleanedWords) ELSE SortByLengthAsc(cleanedWords)

\* The firstWordHorizontal argument of attempt n: true, false, true, false, ...
SeedHorizontal(n) == n % 2 = 1

\* The locals of a fresh attemptPlacement(ws, width, height, horizontal) call.
EnterAttempt(ws, horizontal) ==
  /\ words' = ws
  /\ firstWordHorizontal' = horizontal
  /\ grid' = createEmptyGrid(width, height)
  /\ placements' = <<>>
  /\ unplacedWords' = <<>>
  /\ i' = 0
  /\ madeProgress' = FALSE
  /\ stillUnplaced' = <<>>
  /\ k' = 0
  /\ lastCommit' = <<>>
  /\ pc' = "firstPass"

\* "Clean words"
Clean ==
  /\ pc = "clean"
  /\ cleanedWords' = CleanWords(inputWords)
  /\ pc' = "strategy"
  /\ UNCHANGED << inputVars, attemptVars, historyVars, strategy, shuffled,
                  bestResult, returned >>

\* Strategies 1-4: attemptPlacement(sortedByLength / sortedByLengthAsc, ...)
StartSorted ==
  /\ pc = "strategy"
  /\ strategy < SortedStrategies
  /\ strategy' = strategy + 1
  /\ EnterAttempt(SortedOrder(strategy + 1), SeedHorizontal(strategy + 1))
  /\ UNCHANGED << inputVars, cleanedWords, shuffled, bestResult, returned,
                  historyVars >>

\* const shuffled = shuffle(cleanedWords); attemptPlacement(shuffled, .., true)
StartShuffledH ==
  /\ pc = "strategy"
  /\ strategy >= SortedStrategies
  /\ strategy < LastStrategy
  /\ SeedHorizontal(strategy + 1)
  /\ \E draws \in ShuffleDraws(Len(cleanedWords)) :
       /\ shuffled' = shuffle(cleanedWords, draws)
       /\ EnterAttempt(shuffle(cleanedWords, draws), TRUE)
  /\ strategy' = strategy + 1
  /\ UNCHANGED << inputVars, cleanedWords, bestResult, returned,
                  historyVars >>

\* attemptPlacement(shuffled, width, height, false)
StartShuffledV ==
  /\ pc = "strategy"
  /\ strategy >= SortedStrategies
  /\ strategy < LastStrategy
  /\ ~SeedHorizontal(strategy + 1)
  /\ strategy' = strategy + 1
  /\ EnterAttempt(shuffled, FALSE)
  /\ UNCHANGED << inputVars, cleanedWords, shuffled, bestResult, returned,
                  historyVars >>

\* ---------------------------------------------------------- attemptPlacement

\* The record pushed to placements.
Committed(word, best) ==
  [word |-> word, row |-> best.row, col |-> best.col,
   isHorizontal |-> best.isHorizontal]

\* grid = placeWord(...); placements.push(...), with the history of the commit.
Commit(word, best) ==
  /\ grid' = placeWord(grid, word, best.row, best.col, best.isHorizontal)
  /\ placements' = Append(placements, Committed(word, best))
  /\ lastCommit' = << [gridBefore |-> grid, placement |-> Committed(word, best),
                       index |-> Len(placements) + 1,
                       inRetry |-> pc = "retrySweep"] >>

\* Mutant of FirstPassStep: a word with no valid placement is not pushed to
\* unplacedWords.
FirstPassStepForgetsWord ==
  /\ pc = "firstPass"
  /\ i < Len(words)
  /\ LET word == words[i + 1]
         isFirstWord == Len(placements) = 0
         validPlacements ==
           findValidPlacements(grid, word, placements, isFirstWord,
                               firstWordHorizontal)
     IN  IF Len(validPlacements) = 0
           THEN UNCHANGED << unplacedWords, grid, placements, lastCommit >>
           ELSE /\ Commit(word, BestPlacement(validPlacements))
                /\ UNCHANGED unplacedWords
  /\ i' = i + 1
  /\ UNCHANGED << inputVars, historyVars, cleanedWords, strategy, shuffled,
                  words, firstWordHorizontal, madeProgress, stillUnplaced, k,
                  bestResult, returned, pc >>

\* One iteration of "First pass: try to place all words in order".
FirstPassStep ==
  /\ pc = "firstPass"
  /\ i < Len(words)
  /\ LET word == words[i + 1]
         isFirstWord == Len(placements) = 0
         validPlacements ==
           findValidPlacements(grid, word, placements, isFirstWord,
                               firstWordHorizontal)
     IN  IF Len(validPlacements) = 0
           THEN /\ unplacedWords' = Append(unplacedWords, word)
                /\ UNCHANGED << grid, placements, lastCommit >>
           ELSE /\ Commit(word, BestPlacement(validPlacements))
                /\ UNCHANGED unplacedWords
  /\ i' = i + 1
  /\ UNCHANGED << inputVars, historyVars, cleanedWords, strategy, shuffled,
                  words, firstWordHorizontal, madeProgress, stillUnplaced, k,
                  bestResult, returned, pc >>

\* The first pass is over: let madeProgress = true.
FirstPassEnd ==
  /\ pc = "firstPass"
  /\ i >= Len(words)
  /\ madeProgress' = TRUE
  /\ pc' = "retryTest"
  /\ deferred' = Len(unplacedWords)
  /\ sweeps' = 0
  /\ UNCHANGED << inputVars, resultHistory, cleanedWords, strategy, shuffled,
                  words, firstWordHorizontal, grid, placements, unplacedWords,
                  i, stillUnplaced, k, bestResult, returned, lastCommit >>

\* Mutant of RetryTest: the while loop is never entered, the attempt returns
\* after the first pass.
RetryTestNoSweep ==
  /\ pc = "retryTest"
  /\ pc' = "attemptReturn"
  /\ UNCHANGED << inputVars, historyVars, cleanedWords, strategy, shuffled,
                  words, firstWordHorizontal, grid, placements, unplacedWords,
                  i, bestResult, returned, lastCommit, madeProgress,
                  stillUnplaced, k >>

\* while (madeProgress && unplacedWords.length > 0): enter a sweep or return.
RetryTest ==
  /\ pc = "retryTest"
  /\ IF madeProgress /\ Len(unplacedWords) > 0
       THEN /\ madeProgress' = FALSE
            /\ stillUnplaced' = <<>>
            /\ k' = 0
            /\ sweeps' = sweeps + 1
            /\ pc' = "retrySweep"
       ELSE /\ pc' = "attemptReturn"
            /\ UNCHANGED << madeProgress, stillUnplaced, k, sweeps >>
  /\ UNCHANGED << inputVars, resultHistory, deferred, cleanedWords, strategy,
                  shuffled,
                  words, firstWordHorizontal, grid, placements, unplacedWords,
                  i, bestResult, returned, lastCommit >>

\* Mutant of RetryStep: a word that finds no candidate is not pushed to
\* stillUnplaced.
RetryStepDropsWord ==
  /\ pc = "retrySweep"
  /\ k < Len(unplacedWords)
  /\ LET word == unplacedWords[k + 1]
         validPlacements == findValidPlacements(grid, word, placements, FALSE, TRUE)
     IN  IF Len(validPlacements) = 0
           THEN UNCHANGED << grid, placements, lastCommit, madeProgress,
                             stillUnplaced >>
           ELSE /\ Commit(word, BestPlacement(validPlacements))
                /\ madeProgress' = TRUE
                /\ UNCHANGED stillUnplaced
  /\ k' = k + 1
  /\ UNCHANGED << inputVars, historyVars, cleanedWords, strategy, shuffled,
                  words, firstWordHorizontal, unplacedWords, i, bestResult,
                  returned, pc >>

\* Mutant of RetryStep: while nothing is placed the retry searches the word as
\* a first word, in the other seed orientation.
RetryStepSeedsAgain ==
  /\ pc = "retrySweep"
  /\ k < Len(unplacedWords)
  /\ LET word == unplacedWords[k + 1]
         validPlacements ==
           findValidPlacements(grid, word, placements, Len(placements) = 0,
                               ~firstWordHorizontal)
     IN  IF Len(validPlacements) = 0
           THEN /\ stillUnplaced' = Append(stillUnplaced, word)
                /\ UNCHANGED << grid, placements, lastCommit, madeProgress >>
           ELSE /\ Commit(word, BestPlacement(validPlacements))
                /\ madeProgress' = TRUE
                /\ UNCHANGED stillUnplaced
  /\ k' = k + 1
  /\ UNCHANGED << inputVars, historyVars, cleanedWords, strategy, shuffled,
                  words, firstWordHorizontal, unplacedWords, i, bestResult,
                  returned, pc >>

\* One iteration of for (const word of unplacedWords) in a retry sweep.
RetryStep ==
  /\ pc = "retrySweep"
  /\ k < Len(unplacedWords)
  /\ LET word == unplacedWords[k + 1]
         validPlacements == findValidPlacements(grid, word, placements, FALSE, TRUE)
     IN  IF Len(validPlacements) = 0
           THEN /\ stillUnplaced' = Append(stillUnplaced, word)
                /\ UNCHANGED << grid, placements, lastCommit, madeProgress >>
           ELSE /\ Commit(word, BestPlacement(validPlacements))
                /\ madeProgress' = TRUE
                /\ UNCHANGED stillUnplaced
  /\ k' = k + 1
  /\ UNCHANGED << inputVars, historyVars, cleanedWords, strategy, shuffled,
                  words, firstWordHorizontal, unplacedWords, i, bestResult,
                  returned, pc >>

\* Mutant of RetrySweepEnd: unplacedWords = stillUnplaced is missing, the next
\* sweep goes over the same bucket.
RetrySweepEndKeepsBucket ==
  /\ pc = "retrySweep"
  /\ k >= Len(unplacedWords)
  /\ unplacedWords' = unplacedWords
  /\ stillUnplaced' = <<>>
  /\ k' = 0
  /\ pc' = "retryTest"
  /\ UNCHANGED << inputVars, historyVars, cleanedWords, strategy, shuffled,
                  words, firstWordHorizontal, grid, placements, i,
                  madeProgress, bestResult, returned, lastCommit >>

\* The sweep is over: unplacedWords = stillUnplaced.
RetrySweepEnd ==
  /\ pc = "retrySweep"
  /\ k >= Len(unplacedWords)
  /\ unplacedWords' = stillUnplaced
  /\ stillUnplaced' = <<>>
  /\ k' = 0
  /\ pc' = "retryTest"
  /\ UNCHANGED << inputVars, historyVars, cleanedWords, strategy, shuffled,
                  words, firstWordHorizontal, grid, placements, i,
                  madeProgress, bestResult, returned, lastCommit >>

\* ------------------------------------------------- keeping the best result

\* return { grid, placements, unplacedWords }
AttemptResult ==
  [grid |-> grid, placements |-> placements, unplacedWords |-> unplacedWords]

\* Mutant of Replaces: >= for >, a tie replaces the best result.
ReplacesOnTie(result, best) ==
  \/ best = <<>>
  \/ Len(result.placements) >= Len(best[1].placements)

\* if (!bestResult || resultN.placements.length > bestResult.placements.length)
\* Mutant of Replaces: bestResult is assigned after every attempt.
ReplacesAlways(result, best) == TRUE

Replaces(result, best) ==
  \/ best = <<>>
  \/ Len(result.placements) > Len(best[1].placements)

\* The locals of attemptPlacement, and the shuffled order at the end of its
\* round, go out of scope. The order a horizontal attempt ran with is kept as
\* history until the vertical attempt after it has started.
LeaveAttempt ==
  /\ words' = IF SeedHorizontal(strategy) THEN words ELSE <<>>
  /\ firstWordHorizontal' = TRUE
  /\ grid' = <<>>
  /\ placements' = <<>>
  /\ unplacedWords' = <<>>
  /\ i' = 0
  /\ madeProgress' = FALSE
  /\ stillUnplaced' = <<>>
  /\ k' = 0
  /\ lastCommit' = <<>>
  /\ shuffled' = IF SeedHorizontal(strategy) THEN shuffled ELSE <<>>

\* The attempts followed by if (bestResult.unplacedWords.length === 0) return.
ChecksAllPlaced(n) == n \notin {3, 4}

\* The caller takes the result of attempt `strategy`: keeps the better one and
\* returns it or goes on to the next attempt.
AttemptReturn ==
  /\ pc = "attemptReturn"
  /\ LET result == AttemptResult
         assigned == Replaces(result, bestResult)
         best == IF assigned THEN <<result>> ELSE bestResult
     IN  /\ bestResult' = best
         /\ bestFrom' = IF assigned THEN strategy ELSE bestFrom
         /\ IF \/ ChecksAllPlaced(strategy) /\ Len(best[1].unplacedWords) = 0
               \/ strategy >= LastStrategy
              THEN /\ returned' = best
                   /\ pc' = "done"
              ELSE /\ returned' = returned
                   /\ pc' = "strategy"
  /\ IF firstMaxAt = 0 \/ Len(placements) > maxPlaced
       THEN maxPlaced' = Len(placements) /\ firstMaxAt' = strategy
       ELSE UNCHANGED << maxPlaced, firstMaxAt >>
  /\ allPlacedAt' = IF allPlacedAt = 0 /\ Len(unplacedWords) = 0
                      THEN strategy ELSE allPlacedAt
  /\ LeaveAttempt
  /\ deferred' = 0
  /\ sweeps' = 0
  /\ UNCHANGED << inputVars, cleanedWords, strategy >>

Next ==
  \/ Clean
  \/ StartSorted
  \/ StartShuffledH
  \/ StartShuffledV
  \/ FirstPassStep
  \/ FirstPassEnd
  \/ RetryTest
  \/ RetryStep
  \/ RetrySweepEnd
  \/ AttemptReturn

Spec == Init /\ [][Next]_vars

\* ------------------------------- scorePlacement on grids of every legal size

\* The largest width and height GridSettings accepts.
LargestGrid == 50

\* A word of n letters; only its length enters distanceFromCenter.
WordOfLength(n) == [x \in 1..n |-> "A"]

InitScore ==
  /\ inputWords = <<>>
  /\ width \in 1..LargestGrid
  /\ height \in 1..LargestGrid
  /\ GeneratorAt("score")
  /\ NoValidatorCall

\* A word that fits the grid in some orientation is about to be searched on a
\* width x height grid.
ScoreWord ==
  /\ pc = "score"
  /\ \E n \in 1..(IF width > height THEN width ELSE height) :
       words' = << WordOfLength(n) >>
  /\ grid' = createEmptyGrid(width, height)
  /\ pc' = "scored"
  /\ UNCHANGED << inputVars, historyVars, cleanedWords, strategy, shuffled,
                  firstWordHorizontal, placements, unplacedWords, i,
                  madeProgress, stillUnplaced, k, lastCommit, bestResult,
                  returned >>

NextScore == ScoreWord

SpecScore == InitScore /\ [][NextScore]_vars

\* ----------------- generateCrossword of utils/crosswordGenerator.js (App's)

\* One-letter and longer words of one letter set: a later word can be laid
\* over earlier ones.
OverlayWords == { <<"C">>, <<"C", "A">>, <<"C", "C">>, <<"C", "C", "C">> }

\* The requests of two and more of these words, in any order.
OverlayLists ==
  { ws \in UNION { [1..n -> OverlayWords] : n \in 2..Cardinality(OverlayWords) } :
      \A a \in 1..Len(ws) : \A b \in 1..Len(ws) : a # b => ws[a] # ws[b] }

InitUtils ==
  /\ inputWords \in OverlayLists
  /\ width \in 2..MaxDim
  /\ height \in 2..MaxDim
  /\ GeneratorAt("clean")
  /\ NoValidatorCall

\* const sortedWords = [...words].map(...).filter(...).sort(longest first);
\* let grid = createEmptyGrid(width, height); placements = []; unplacedWords = []
utilsStart ==
  /\ pc = "clean"
  /\ cleanedWords' = CleanWords(inputWords)
  /\ words' = SortByLengthDesc(CleanWords(inputWords))
  /\ strategy' = 1
  /\ firstWordHorizontal' = TRUE
  /\ grid' = createEmptyGrid(width, height)
  /\ placements' = <<>>
  /\ unplacedWords' = <<>>
  /\ i' = 0
  /\ pc' = "firstPass"
  /\ UNCHANGED << inputVars, historyVars, shuffled, madeProgress, stillUnplaced,
                  k, bestResult, returned, lastCommit >>

\* One iteration of its "First pass: try to place all words in order".
utilsFirstPassStep ==
  /\ pc = "firstPass"
  /\ i < Len(words)
  /\ LET word == words[i + 1]
         validPlacements == utilsFindValidPlacements(grid, word, placements)
     IN  IF Len(validPlacements) = 0
           THEN /\ unplacedWords' = Append(unplacedWords, word)
                /\ UNCHANGED << grid, placements, lastCommit >>
           ELSE /\ Commit(word, BestPlacement(validPlacements))
                /\ UNCHANGED unplacedWords
  /\ i' = i + 1
  /\ UNCHANGED << inputVars, historyVars, cleanedWords, strategy, shuffled,
                  words, firstWordHorizontal, madeProgress, stillUnplaced, k,
                  bestResult, returned, pc >>

\* One iteration of for (const word of unplacedWords) in its retry sweep.
utilsRetryStep ==
  /\ pc = "retrySweep"
  /\ k < Len(unplacedWords)
  /\ LET word == unplacedWords[k + 1]
         validPlacements == utilsFindValidPlacements(grid, word, placements)
     IN  IF Len(validPlacements) = 0
           THEN /\ stillUnplaced' = Append(stillUnplaced, word)
                /\ UNCHANGED << grid, placements, lastCommit, madeProgress >>
           ELSE /\ Commit(word, BestPlacement(validPlacements))
                /\ madeProgress' = TRUE
                /\ UNCHANGED stillUnplaced
  /\ k' = k + 1
  /\ UNCHANGED << inputVars, historyVars, cleanedWords, strategy, shuffled,
                  words, firstWordHorizontal, unplacedWords, i, bestResult,
                  returned, pc >>

\* return { grid, placements, unplacedWords }
utilsReturn ==
  /\ pc = "attemptReturn"
  /\ returned' = << AttemptResult >>
  /\ bestResult' = << AttemptResult >>
  /\ pc' = "done"
  /\ UNCHANGED << inputVars, historyVars, cleanedWords, strategy, shuffled,
                  attemptVars >>

NextUtils ==
  \/ utilsStart
  \/ utilsFirstPassStep
  \/ FirstPassEnd
  \/ RetryTest
  \/ utilsRetryStep
  \/ RetrySweepEnd
  \/ utilsReturn

SpecUtils == InitUtils /\ [][NextUtils]_vars

\* ----------------------- generateCrossword on words that crowd a small grid

\* Two-letter words that cross each other in several ways, with a longer one:
\* on a small grid their candidates run alongside words placed earlier.
CrowdingWords == { <<"C", "A">>, <<"A", "T">>, <<"T", "A">>, <<"C", "A", "T">> }

\* The requests of two and more of these words, in any order.
CrowdingLists ==
  { ws \in UNION { [1..n -> CrowdingWords] : n \in 2..MaxWords } :
      \A a \in 1..Len(ws) : \A b \in 1..Len(ws) : a # b => ws[a] # ws[b] }

InitCrowded ==
  /\ inputWords \in CrowdingLists
  /\ width \in 2..MaxDim
  /\ height \in 2..MaxDim
  /\ GeneratorAt("clean")
  /\ NoValidatorCall

SpecCrowded == InitCrowded /\ [][Next]_vars

\* ------------------------------------- isValidPlacement called on any grid

ValidatorLetters == {"A", "C"}

\* The w x h grids holding at most MaxFilled letters.
GridsOf(w, h) ==
  UNION { { [r \in 1..h |-> [c \in 1..w |->
               IF <<r, c>> \in filled THEN letter[<<r, c>>] ELSE NULL]] :
            letter \in [filled -> ValidatorLetters] } :
          filled \in {cells \in SUBSET ((1..h) \X (1..w)) :
                        Cardinality(cells) <= MaxFilled} }

\* The words of A's with at most one C: a letter of either kind at each index.
ValidatorWords ==
  UNION { {w \in [1..n -> ValidatorLetters] :
             Cardinality({m \in 1..n : w[m] = "C"}) <= 1} :
          n \in 1..MaxDim }

InitValid ==
  /\ inputWords = <<>>
  /\ width \in 1..MaxDim
  /\ height \in 1..MaxDim
  /\ GeneratorAt("idle")
  /\ vGrid \in GridsOf(width, height)
  /\ vWord \in ValidatorWords
  /\ vCall = <<>>
  /\ nGrid = <<>>
  /\ nCall = <<>>
  /\ nAgain = <<>>
  /\ error = ""
  /\ NoUi

\* One call isValidPlacement(vGrid, vWord, row, col, isHorizontal), at a
\* position inside the grid or one cell outside it.  The function assigns to
\* no cell, so the grid after the call is the grid before it.
Validate ==
  /\ pc = "idle"
  /\ vCall = <<>>
  /\ \E row \in (0 - 1)..GridHeight(vGrid), col \in (0 - 1)..GridWidth(vGrid),
        isHorizontal \in BOOLEAN :
       vCall' = << [row |-> row, col |-> col, isHorizontal |-> isHorizontal,
                    result |-> isValidPlacement(vGrid, vWord, row, col,
                                                isHorizontal)] >>
  /\ UNCHANGED << inputWords, width, height, vGrid, vWord, pc, cleanedWords,
                  strategy, shuffled, attemptVars, bestResult, returned,
                  historyVars, numberingVars, error, uiVars >>

NextValid == Validate

SpecValid == InitValid /\ [][NextValid]_vars

\* ------------------------- generateCrossword called with width or height <= 0

\* The least width and height of a call outside the precondition.
MinDim == 0 - 1

\* Array(n) throws a RangeError for n < 0: Array(height) does, and Array(width)
\* does when the map over the rows calls it.
CreateThrows == height < 0 \/ (height > 0 /\ width < 0)

\* grid[0].length throws a TypeError on a grid of no rows.
ReadThrows == height = 0

InitDims ==
  /\ inputWords \in WordLists
  /\ width \in MinDim..MaxDim
  /\ height \in MinDim..MaxDim
  /\ width <= 0 \/ height <= 0
  /\ GeneratorAt("clean")
  /\ NoValidatorCall

\* createEmptyGrid throws at the start of the attemptPlacement call after the
\* attempts made so far; the error leaves generateCrossword.
CreateGridThrows ==
  /\ pc = "strategy"
  /\ strategy < LastStrategy
  /\ CreateThrows
  /\ strategy' = strategy + 1
  /\ error' = "RangeError"
  /\ pc' = "threw"
  /\ UNCHANGED << inputWords, width, height, vGrid, vWord, vCall,
                  numberingVars, cleanedWords, shuffled, attemptVars,
                  bestResult, returned, historyVars, uiVars >>

\* findValidPlacements reads grid[0].length for the first word of the first
\* pass; the error leaves attemptPlacement and generateCrossword.
ReadGridThrows ==
  /\ pc = "firstPass"
  /\ i < Len(words)
  /\ ReadThrows
  /\ error' = "TypeError"
  /\ pc' = "threw"
  /\ UNCHANGED << inputWords, width, height, vGrid, vWord, vCall,
                  numberingVars, cleanedWords, strategy, shuffled,
                  attemptVars, bestResult, returned, historyVars, uiVars >>

\* The attempts that start: createEmptyGrid returns.
StartSortedCreates == ~CreateThrows /\ StartSorted

StartShuffledHCreates == ~CreateThrows /\ StartShuffledH

StartShuffledVCreates == ~CreateThrows /\ StartShuffledV

\* The iterations that read a grid with a first row.
FirstPassStepReads == ~ReadThrows /\ FirstPassStep

RetryStepReads == ~ReadThrows /\ RetryStep

NextDims ==
  \/ Clean
  \/ StartSortedCreates
  \/ StartShuffledHCreates
  \/ StartShuffledVCreates
  \/ CreateGridThrows
  \/ FirstPassStepReads
  \/ ReadGridThrows
  \/ FirstPassEnd
  \/ RetryTest
  \/ RetryStepReads
  \/ RetrySweepEnd
  \/ AttemptReturn

SpecDims == InitDims /\ [][NextDims]_vars

\* --------------------------------------- CrosswordGrid: word suggestions

\* The patterns a selection can give; "" is a selection (or a grid) that
\* gives no valid pattern.
Patterns == {"A?", "?C"}

\* The generator and the functions called on their own are not running.
coreVars == << inputWords, width, height, pc, cleanedWords, strategy,
               shuffled, attemptVars, bestResult, returned, historyVars,
               vGrid, vWord, vCall, numberingVars, error >>

InitSuggest ==
  /\ inputWords = <<>>
  /\ width = 1
  /\ height = 1
  /\ GeneratorAt("idle")
  /\ NoValidatorCall

\* selectedCells or grid changes: React runs the cleanup the last effect
\* returned (clearTimeout(debounceTimer)) and then the effect, which clears
\* the suggestions when there is no valid pattern and otherwise starts the
\* debounce timer of a new lookup.
SelectionChanges ==
  /\ pc = "idle"
  /\ changes < MaxChanges
  /\ \E new \in (Patterns \cup {""}) \ {selection} :
       /\ selection' = new
       /\ changes' = changes + 1
       /\ IF new = ""
            THEN /\ suggestions' = <<>>
                 /\ debounceTimer' = <<>>
            ELSE /\ suggestions' = suggestions
                 /\ debounceTimer' = << [pattern |-> new, change |-> changes + 1] >>
  /\ UNCHANGED << coreVars, inFlight, isLoadingSuggestions,
                  appVars >>

\* The debounce timer fires: fetchAllSuggestions sets the loading flag and
\* sends the requests.
TimerFires ==
  /\ pc = "idle"
  /\ debounceTimer # <<>>
  /\ isLoadingSuggestions' = TRUE
  /\ inFlight' = inFlight \cup {debounceTimer[1]}
  /\ debounceTimer' = <<>>
  /\ UNCHANGED << coreVars, selection, changes, suggestions,
                  appVars >>

\* The requests of a lookup are answered: fetchAllSuggestions goes on after
\* await Promise.all(...).
FetchCompletes ==
  /\ pc = "idle"
  /\ \E lookup \in inFlight :
       /\ suggestions' = << lookup >>
       /\ isLoadingSuggestions' = FALSE
       /\ inFlight' = inFlight \ {lookup}
  /\ UNCHANGED << coreVars, selection, changes, debounceTimer,
                  appVars >>

NextSuggest == SelectionChanges \/ TimerFires \/ FetchCompletes

SpecSuggest == InitSuggest /\ [][NextSuggest]_vars

\* ------------------------------------------------------- generateNumbering

\* startsAcrossWord(grid, row, col)
startsAcrossWord(g, row, col) ==
  IF At(g, row, col) = NULL THEN FALSE
  ELSE IF col > 0 /\ At(g, row, col - 1) # NULL THEN FALSE
  ELSE IF col + 1 >= GridWidth(g) \/ At(g, row, col + 1) = NULL THEN FALSE
  ELSE TRUE

\* startsDownWord(grid, row, col)
startsDownWord(g, row, col) ==
  IF At(g, row, col) = NULL THEN FALSE
  ELSE IF row > 0 /\ At(g, row - 1, col) # NULL THEN FALSE
  ELSE IF row + 1 >= GridHeight(g) \/ At(g, row + 1, col) = NULL THEN FALSE
  ELSE TRUE

\* Mutant of extractWord: the loop stops one cell short of the boundary.
RECURSIVE extractWordShortOfEdge(_, _, _, _)
extractWordShortOfEdge(g, row, col, isHorizontal) ==
  IF isHorizontal
    THEN IF col < GridWidth(g) - 1 /\ At(g, row, col) # NULL
           THEN <<At(g, row, col)>>
                  \o extractWordShortOfEdge(g, row, col + 1, TRUE)
           ELSE <<>>
    ELSE IF row < GridHeight(g) - 1 /\ At(g, row, col) # NULL
           THEN <<At(g, row, col)>>
                  \o extractWordShortOfEdge(g, row + 1, col, FALSE)
           ELSE <<>>

\* extractWord(grid, row, col, isHorizontal): the letters from (row, col) on,
\* up to a null cell or the boundary.
RECURSIVE extractWord(_, _, _, _)
extractWord(g, row, col, isHorizontal) ==
  IF isHorizontal
    THEN IF col < GridWidth(g) /\ At(g, row, col) # NULL
           THEN <<At(g, row, col)>> \o extractWord(g, row, col + 1, TRUE)
           ELSE <<>>
    ELSE IF row < GridHeight(g) /\ At(g, row, col) # NULL
           THEN <<At(g, row, col)>> \o extractWord(g, row + 1, col, FALSE)
           ELSE <<>>

\* { number: currentNumber, word, row, col }
NumberedWord(number, word, row, col) ==
  [number |-> number, word |-> word, row |-> row, col |-> col]

\* Mutant of NumberCell: currentNumber++ once per entry pushed.
NumberCellPerEntry(g, row, col, acc) ==
  LET isAcrossStart == startsAcrossWord(g, row, col)
      isDownStart == startsDownWord(g, row, col)
      downNumber == IF isAcrossStart THEN acc.currentNumber + 1
                    ELSE acc.currentNumber
  IN  IF isAcrossStart \/ isDownStart
        THEN [cellNumbers |->
                [acc.cellNumbers EXCEPT ![row + 1][col + 1] = acc.currentNumber],
              acrossWords |->
                IF isAcrossStart
                  THEN Append(acc.acrossWords,
                              NumberedWord(acc.currentNumber,
                                           extractWord(g, row, col, TRUE),
                                           row, col))
                  ELSE acc.acrossWords,
              downWords |->
                IF isDownStart
                  THEN Append(acc.downWords,
                              NumberedWord(downNumber,
                                           extractWord(g, row, col, FALSE),
                                           row, col))
                  ELSE acc.downWords,
              currentNumber |-> IF isDownStart THEN downNumber + 1
                                ELSE acc.currentNumber + 1]
        ELSE acc

\* The body of the two for loops at (row, col).
NumberCell(g, row, col, acc) ==
  LET isAcrossStart == startsAcrossWord(g, row, col)
      isDownStart == startsDownWord(g, row, col)
  IN  IF isAcrossStart \/ isDownStart
        THEN [cellNumbers |->
                [acc.cellNumbers EXCEPT ![row + 1][col + 1] = acc.currentNumber],
              acrossWords |->
                IF isAcrossStart
                  THEN Append(acc.acrossWords,
                              NumberedWord(acc.currentNumber,
                                           extractWord(g, row, col, TRUE),
                                           row, col))
                  ELSE acc.acrossWords,
              downWords |->
                IF isDownStart
                  THEN Append(acc.downWords,
                              NumberedWord(acc.currentNumber,
                                           extractWord(g, row, col, FALSE),
                                           row, col))
                  ELSE acc.downWords,
              currentNumber |-> acc.currentNumber + 1]
        ELSE acc

\* for (row ...) for (col ...): cell n of the scan, row by row.
RECURSIVE NumberingLoop(_, _, _)
NumberingLoop(g, n, acc) ==
  IF n >= GridHeight(g) * GridWidth(g) THEN acc
  ELSE NumberingLoop(g, n + 1,
                     NumberCell(g, n \div GridWidth(g), n % GridWidth(g), acc))

\* What generateNumbering returns.
NumberingResult(acc) ==
  [cellNumbers |-> acc.cellNumbers, acrossWords |-> acc.acrossWords,
   downWords |-> acc.downWords]

\* A cell of cellNumbers without a number (null in the code; the numbers start
\* at 1).
NoNumber == 0

\* Array(height).fill(null).map(() => Array(width).fill(null))
EmptyCellNumbers(w, h) == [r \in 1..h |-> [c \in 1..w |-> NoNumber]]

\* let currentNumber = 1, with the empty lists.
NumberingStart(g, firstNumber) ==
  [cellNumbers |-> EmptyCellNumbers(GridWidth(g), GridHeight(g)),
   acrossWords |-> <<>>, downWords |-> <<>>, currentNumber |-> firstNumber]

FirstNumber == 1

\* return { cellNumbers: [], acrossWords: [], downWords: [] }
EmptyNumbering ==
  [cellNumbers |-> <<>>, acrossWords |-> <<>>, downWords |-> <<>>]

\* generateNumbering(grid), the argument being <<>> for null and <<g>> for a
\* grid g; null and a grid of no rows give the empty numbering.
generateNumbering(gridOrNull) ==
  IF gridOrNull = <<>> \/ Len(gridOrNull[1]) = 0
    THEN EmptyNumbering
    ELSE LET g == gridOrNull[1]
         IN  NumberingResult(
               NumberingLoop(g, 0, NumberingStart(g, FirstNumber)))

\* A letter for each cell, so that a word read from the grid tells the cells
\* it was read from and their order.
LetterAt(r, c) == UpperAlphabet[(((r - 1) * MaxDim + c - 1) % 26) + 1]

\* The w x h grids with letters on any set of cells.
LetterGrids(w, h) ==
  { [r \in 1..h |-> [c \in 1..w |->
       IF <<r, c>> \in filled THEN LetterAt(r, c) ELSE NULL]] :
    filled \in SUBSET ((1..h) \X (1..w)) }

\* The arguments of generateNumbering: <<g>> for a grid g, <<>> for null.
NumberingArguments(w, h) ==
  { <<g>> : g \in LetterGrids(w, h) } \cup
    (IF w = 1 /\ h = 1 THEN { <<>>, << <<>> >> } ELSE {})

\* generateNumbering is about to be called on a grid, on a grid of no rows or
\* on null.
InitNumbering ==
  /\ inputWords = <<>>
  /\ width \in 1..MaxDim
  /\ height \in 1..MaxDim
  /\ GeneratorAt("idle")
  /\ vGrid = <<>>
  /\ vWord = <<>>
  /\ vCall = <<>>
  /\ nGrid \in NumberingArguments(width, height)
  /\ nCall = <<>>
  /\ nAgain = <<>>
  /\ error = ""
  /\ NoUi

\* const numbering = generateNumbering(nGrid), the first call.  The function
\* assigns to no cell of its argument.
Number ==
  /\ pc = "idle"
  /\ nCall = <<>>
  /\ nCall' = << generateNumbering(nGrid) >>
  /\ UNCHANGED << inputWords, width, height, vGrid, vWord, vCall, nGrid,
                  nAgain, pc, cleanedWords, strategy, shuffled, attemptVars,
                  bestResult, returned, historyVars, error, uiVars >>

\* Mutant of NumberAgain: currentNumber lives outside the function and the
\* second call goes on counting where the first one stopped.
NumberAgainCountsOn ==
  /\ pc = "idle"
  /\ nCall # <<>>
  /\ nAgain = <<>>
  /\ nAgain' =
       IF nGrid = <<>> \/ Len(nGrid[1]) = 0
         THEN << EmptyNumbering >>
         ELSE << NumberingResult(
                   NumberingLoop(nGrid[1], 0,
                     NumberingStart(nGrid[1],
                       FirstNumber + Len(nCall[1].acrossWords)))) >>
  /\ UNCHANGED << inputWords, width, height, vGrid, vWord, vCall, nGrid,
                  nCall, pc, cleanedWords, strategy, shuffled, attemptVars,
                  bestResult, returned, historyVars, error, uiVars >>

\* A second call on the same grid.
NumberAgain ==
  /\ pc = "idle"
  /\ nCall # <<>>
  /\ nAgain = <<>>
  /\ nAgain' = << generateNumbering(nGrid) >>
  /\ UNCHANGED << inputWords, width, height, vGrid, vWord, vCall, nGrid,
                  nCall, pc, cleanedWords, strategy, shuffled, attemptVars,
                  bestResult, returned, historyVars, error, uiVars >>

NextNumbering == Number \/ NumberAgain

SpecNumbering == InitNumbering /\ [][NextNumbering]_vars

\* ============================================================ App (App.jsx)

\* The largest number of App operations in one behaviour.
MaxOps == 3

\* The smallest value GridSettings accepts (5 in the code), on the scale of
\* the model.
MinGridSize == 2

\* const numbering = generateNumbering(g); setCellNumbers(numbering.cellNumbers);
\* setAcrossWords(numbering.acrossWords); setDownWords(numbering.downWords);
SetNumbering(numbering) ==
  /\ cellNumbers' = numbering.cellNumbers
  /\ acrossWords' = numbering.acrossWords
  /\ downWords' = numbering.downWords

\* One more operation has been handled.
Handled(op) ==
  /\ opCount' = opCount + 1
  /\ lastOp' = op
  /\ lastKey' = <<>>

\* What no App operation touches.
outsideApp == << coreVars, suggestVars >>

\* ------------------------------------------------------------- GridSettings

\* onWidthChange={setGridWidth}, offered while grid is null.
ChangeWidth ==
  /\ appPc = "ready" /\ opCount < MaxOps
  /\ appGrid = <<>>
  /\ \E value \in (MinGridSize..MaxDim) \ {gridWidth} : gridWidth' = value
  /\ Handled("width")
  /\ UNCHANGED << outsideApp, appGrid, storedNumbering, gridHeight, appPc,
                  lastLoad >>

\* onHeightChange={setGridHeight}, offered while grid is null.
ChangeHeight ==
  /\ appPc = "ready" /\ opCount < MaxOps
  /\ appGrid = <<>>
  /\ \E value \in (MinGridSize..MaxDim) \ {gridHeight} : gridHeight' = value
  /\ Handled("height")
  /\ UNCHANGED << outsideApp, appGrid, storedNumbering, gridWidth, appPc,
                  lastLoad >>

\* ----------------------------------------------------------- handleGenerate

\* The words of the requests handleGenerate is given: a word of two letters, a
\* word of three and, with each, a word longer than any grid.
ShortWords == { <<"C", "A">>, <<"C", "A", "T">> }

\* result.grid of generateCrossword([word, a word too long for the grid], w, h):
\* the long word is not placed, and word is the first word, centered across if
\* it fits.
GeneratedGrid(word, w, h) ==
  LET g == createEmptyGrid(w, h)
      row == FirstWordRow(g, word, TRUE)
      col == FirstWordCol(g, word, TRUE)
  IN  IF isValidPlacement(g, word, row, col, TRUE)
        THEN placeWord(g, word, row, col, TRUE)
        ELSE g

\* The grids generateCrossword returns to handleGenerate: one word placed, or
\* none (two words too long for the grid).
GeneratedGrids(w, h) ==
  { GeneratedGrid(word, w, h) : word \in ShortWords } \cup { createEmptyGrid(w, h) }

\* handleGenerate, offered while grid is null.
handleGenerate ==
  /\ appPc = "ready" /\ opCount < MaxOps
  /\ appGrid = <<>>
  /\ \E resultGrid \in GeneratedGrids(gridWidth, gridHeight) :
       /\ appGrid' = <<resultGrid>>
       /\ SetNumbering(generateNumbering(<<resultGrid>>))
  /\ Handled("generate")
  /\ UNCHANGED << outsideApp, gridWidth, gridHeight, appPc, lastLoad >>

\* --------------------------------------------------------- handleCellChange

\* changes.find(c => c.row === rowIndex && c.col === colIndex): the first
\* change of the cell, <<>> for none.
FindChange(cellChanges, rowIndex, colIndex) ==
  LET found == { n \in 1..Len(cellChanges) :
                   /\ cellChanges[n].row = rowIndex
                   /\ cellChanges[n].col = colIndex }
  IN  IF found = {} THEN <<>>
      ELSE << cellChanges[CHOOSE n \in found : \A m \in found : n <= m] >>

\* const newGrid = grid.map(...): the changed cells take the letter of their
\* change, the others keep their letter.
ChangedGrid(g, cellChanges) ==
  [r \in 1..Len(g) |->
    [c \in 1..Len(g[r]) |->
      LET change == FindChange(cellChanges, r - 1, c - 1)
      IN  IF change # <<>> THEN change[1].letter ELSE g[r][c]]]

\* Mutant of NumberedAfterChange: the numbering is computed from the grid of
\* the render, not from newGrid.
NumberedAfterChangeIsOldGrid(g, newGrid) == g

\* The grid handleCellChange numbers: generateNumbering(newGrid).
NumberedAfterChange(g, newGrid) == newGrid

\* The state one call of handleCellChange queues: it reads the grid of the
\* render it was created in.
QueuedByCellChange(g, cellChanges) ==
  LET newGrid == ChangedGrid(g, cellChanges)
  IN  [grid |-> newGrid,
       numbering |-> generateNumbering(<< NumberedAfterChange(g, newGrid) >>)]

\* The cells the edits of the model touch: the top left corner of the grid.
EditCells(g) ==
  { <<r, c>> \in (0..1) \X (0..1) : r < GridHeight(g) /\ c < GridWidth(g) }

\* selectedCells in insertion order: one cell, or two cells of a row or column.
Selections(g) ==
  { <<cell>> : cell \in EditCells(g) } \cup
  { sel \in { << <<0, 0>>, <<0, 1>> >>, << <<0, 1>>, <<0, 0>> >>,
              << <<0, 0>>, <<1, 0>> >> } :
      \A n \in 1..2 : sel[n] \in EditCells(g) }

\* The letters typed: a letter, or NULL for Backspace and Delete.
TypedLetters == { NULL, "A" }

\* Backspace, Delete or a letter key with cells selected:
\* selectedCells.forEach(key => onCellChange(row, col, letter)). Every call is
\* the handleCellChange of the same render, and React applies the updates in
\* the order they were queued, so that the values of the last call are stored.
KeyDown ==
  /\ appPc = "ready" /\ opCount < MaxOps
  /\ appGrid # <<>>
  /\ \E selectedCells \in Selections(appGrid[1]) : \E letter \in TypedLetters :
       LET calls == [n \in 1..Len(selectedCells) |->
                       QueuedByCellChange(appGrid[1],
                         << [row |-> selectedCells[n][1],
                             col |-> selectedCells[n][2],
                             letter |-> letter] >>)]
           last == calls[Len(calls)]
       IN  /\ appGrid' = << last.grid >>
           /\ SetNumbering(last.numbering)
           /\ opCount' = opCount + 1
           /\ lastOp' = IF Len(selectedCells) > 1 THEN "keys" ELSE "key"
           /\ lastKey' = << [selectedCells |-> selectedCells,
                             letter |-> letter] >>
  /\ UNCHANGED << outsideApp, gridWidth, gridHeight, appPc, lastLoad >>

\* The words fillSuggestion fills in.
SuggestedWords == { <<"C", "A">> }

\* fillSuggestion: onCellChange(changes) with one change for each cell of the
\* pattern, in one call.
FillSuggestion ==
  /\ appPc = "ready" /\ opCount < MaxOps
  /\ appGrid # <<>>
  /\ \E cells \in { sel \in Selections(appGrid[1]) : Len(sel) > 1 } :
     \E word \in SuggestedWords :
       LET cellChanges == [n \in 1..Len(cells) |->
                             [row |-> cells[n][1], col |-> cells[n][2],
                              letter |-> word[n]]]
           queued == QueuedByCellChange(appGrid[1], cellChanges)
       IN  /\ appGrid' = << queued.grid >>
           /\ SetNumbering(queued.numbering)
  /\ Handled("fill")
  /\ UNCHANGED << outsideApp, gridWidth, gridHeight, appPc, lastLoad >>

\* ---------------------------------------------------------------- shiftGrid

Directions == { "up", "down", "left", "right" }

\* canShiftGrid(g, dir), which is also canShift(direction) on the stored grid:
\* no letter in the row or column at the edge of that direction.
canShiftGrid(g, dir) ==
  CASE dir = "up" -> \A c \in 1..GridWidth(g) : g[1][c] = NULL
    [] dir = "down" -> \A c \in 1..GridWidth(g) : g[GridHeight(g)][c] = NULL
    [] dir = "left" -> \A r \in 1..GridHeight(g) : g[r][1] = NULL
    [] dir = "right" -> \A r \in 1..GridHeight(g) : g[r][GridWidth(g)] = NULL

\* shiftOnce(dir) on newGrid.
shiftOnce(newGrid, dir) ==
  LET h == GridHeight(newGrid)
      w == GridWidth(newGrid)
  IN  [r \in 1..h |->
        [c \in 1..w |->
          CASE dir = "up" -> IF r < h THEN newGrid[r + 1][c] ELSE NULL
            [] dir = "down" -> IF r > 1 THEN newGrid[r - 1][c] ELSE NULL
            [] dir = "left" -> IF c < w THEN newGrid[r][c + 1] ELSE NULL
            [] dir = "right" -> IF c > 1 THEN newGrid[r][c - 1] ELSE NULL]]

RECURSIVE ShiftWhile(_, _)
\* while (canShiftGrid(newGrid, direction)) newGrid = shiftOnce(direction):
\* <<newGrid>> when the loop ends, <<>> when it comes back to a grid it has
\* already shifted and so never ends.
ShiftWhile(newGrid, dir) ==
  IF ~canShiftGrid(newGrid, dir) THEN <<newGrid>>
  ELSE IF shiftOnce(newGrid, dir) = newGrid THEN <<>>
  ELSE ShiftWhile(shiftOnce(newGrid, dir), dir)

\* newGrid after the if (toEdge) ... else ...
ShiftedGrid(g, dir, toEdge) ==
  IF toEdge THEN ShiftWhile(g, dir)
  ELSE IF canShiftGrid(g, dir) THEN << shiftOnce(g, dir) >>
  ELSE <<g>>

\* shiftGrid(direction, toEdge) from a shift button, which is enabled when
\* canShift(direction), and which returns.
shiftGrid ==
  /\ appPc = "ready" /\ opCount < MaxOps
  /\ appGrid # <<>>
  /\ \E direction \in Directions : \E toEdge \in BOOLEAN :
       /\ canShiftGrid(appGrid[1], direction)
       /\ ShiftedGrid(appGrid[1], direction, toEdge) # <<>>
       /\ appGrid' = ShiftedGrid(appGrid[1], direction, toEdge)
       /\ SetNumbering(generateNumbering(ShiftedGrid(appGrid[1], direction, toEdge)))
  /\ Handled("shift")
  /\ UNCHANGED << outsideApp, gridWidth, gridHeight, appPc, lastLoad >>

\* shiftGrid(direction, true) whose while loop never ends: the handler does not
\* return and nothing is handled after it.
shiftGridForever ==
  /\ appPc = "ready" /\ opCount < MaxOps
  /\ appGrid # <<>>
  /\ \E direction \in Directions :
       /\ canShiftGrid(appGrid[1], direction)
       /\ ShiftedGrid(appGrid[1], direction, TRUE) = <<>>
  /\ appPc' = "shifting"
  /\ Handled("shift")
  /\ UNCHANGED << outsideApp, appGrid, storedNumbering, gridWidth, gridHeight,
                  lastLoad >>

\* --------------------------------------------------------------- handleLoad

\* What loadedGrid[r][c] = word[i] does once r < gridHeight && c < gridWidth
\* has passed: loadedGrid[r] is undefined for r < 0 and the assignment throws
\* a TypeError; for c < 0 the row gets a property named by c and no element of
\* it changes; otherwise the cell is written.
LoadAssign(load, r, c, letter) ==
  IF r < 0 THEN [load EXCEPT !.threw = TRUE]
  ELSE IF c < 0 THEN [load EXCEPT !.outside = @ \cup { <<r, c>> }]
  ELSE [load EXCEPT !.loadedGrid[r + 1][c + 1] = letter]

RECURSIVE LoadLetters(_, _, _, _)
\* for (let i = 0; i < word.length; i++) of one placement, from letter j (i in the code) on,
\* until an assignment throws.
LoadLetters(load, data, placement, j) ==
  IF load.threw \/ j >= Len(placement.word) THEN load
  ELSE LET r == CellRow(placement.row, placement.isHorizontal, j)
           c == CellCol(placement.col, placement.isHorizontal, j)
       IN  LoadLetters(
             IF r < data.gridHeight /\ c < data.gridWidth
               THEN LoadAssign(load, r, c, Ch(placement.word, j))
               ELSE [load EXCEPT !.skipped = @ \cup { <<r, c>> }],
             data, placement, j + 1)

RECURSIVE LoadPlacements(_, _, _)
\* for (const placement of data.placements), from placement n on.
LoadPlacements(load, data, n) ==
  IF load.threw \/ n > Len(data.placements) THEN load
  ELSE LoadPlacements(LoadLetters(load, data, data.placements[n], 0), data, n + 1)

\* The reconstruction of handleLoad(data): the grid, the cells outside the
\* grid that were assigned to, the letters that were skipped, and whether an
\* assignment threw.
Reconstruction(data) ==
  LoadPlacements([loadedGrid |-> createEmptyGrid(data.gridWidth, data.gridHeight),
                  outside |-> {}, skipped |-> {}, threw |-> FALSE],
                 data, 1)

Placed(word, row, col, isHorizontal) ==
  [word |-> word, row |-> row, col |-> col, isHorizontal |-> isHorizontal]

\* The files loaded: saved crosswords, a file without placements, and files
\* edited by hand whose placements run past an edge or start before one.
LoadFiles ==
  { [gridWidth |-> 2, gridHeight |-> 2,
     placements |-> << Placed(<<"C", "A">>, 0, 0, TRUE) >>],
    [gridWidth |-> MaxDim, gridHeight |-> MaxDim,
     placements |-> << Placed(<<"C", "A">>, 1, 0, TRUE),
                       Placed(<<"A", "T">>, 1, 1, FALSE) >>],
    [gridWidth |-> 2, gridHeight |-> 2, placements |-> <<>>],
    [gridWidth |-> 2, gridHeight |-> 2,
     placements |-> << Placed(<<"C", "A", "T">>, 0, 0, TRUE) >>],
    [gridWidth |-> 2, gridHeight |-> 2,
     placements |-> << Placed(<<"C", "A">>, 1, 0, FALSE) >>],
    [gridWidth |-> 2, gridHeight |-> 2,
     placements |-> << Placed(<<"C", "A">>, 0 - 1, 0, FALSE) >>],
    [gridWidth |-> 2, gridHeight |-> 2,
     placements |-> << Placed(<<"C", "A">>, 0, 0 - 1, TRUE) >>] }

\* ExportPanel's reader.onload: try { onLoad(data) } catch { alert(...) }, with
\* onLoad = handleLoad. The grid settings are set before the reconstruction and
\* stay set when it throws; the grid and the numbering are set after it.
handleLoad ==
  /\ appPc = "ready" /\ opCount < MaxOps
  /\ \E data \in LoadFiles :
       LET load == Reconstruction(data)
       IN  /\ gridWidth' = data.gridWidth
           /\ gridHeight' = data.gridHeight
           /\ IF load.threw
                THEN UNCHANGED << appGrid, storedNumbering >>
                ELSE /\ appGrid' = << load.loadedGrid >>
                     /\ SetNumbering(generateNumbering(<< load.loadedGrid >>))
           /\ lastLoad' = << [data |-> data,
                              outside |-> load.outside,
                              skipped |-> load.skipped,
                              alerted |-> load.threw,
                              numbered |-> IF load.threw THEN <<>>
                                           ELSE << load.loadedGrid >>] >>
  /\ Handled("load")
  /\ UNCHANGED << outsideApp, appPc >>

\* -------------------------------------------------------------- handleReset

\* handleReset, from the button shown while there is a grid.
handleReset ==
  /\ appPc = "ready" /\ opCount < MaxOps
  /\ appGrid # <<>>
  /\ appGrid' = <<>>
  /\ cellNumbers' = <<>>
  /\ acrossWords' = <<>>
  /\ downWords' = <<>>
  /\ Handled("reset")
  /\ UNCHANGED << outsideApp, gridWidth, gridHeight, appPc, lastLoad >>

InitApp ==
  /\ inputWords = <<>>
  /\ width = 1
  /\ height = 1
  /\ GeneratorAt("idle")
  /\ NoValidatorCall

NextApp ==
  \/ ChangeWidth
  \/ ChangeHeight
  \/ handleGenerate
  \/ KeyDown
  \/ FillSuggestion
  \/ shiftGrid
  \/ shiftGridForever
  \/ handleLoad
  \/ handleReset

SpecApp == InitApp /\ [][NextApp]_vars


\* =================================================================== claims

Range(seq) == {seq[n] : n \in 1..Len(seq)}

NoDuplicate(seq) ==
  \A a \in 1..Len(seq) : \A b \in 1..Len(seq) : a # b => seq[a] # seq[b]

PlacedWords(ps) == [n \in 1..Len(ps) |-> ps[n].word]

Done == returned # <<>>

\* The cells a placement covers, as <<row, col>> (0-based).
CellsOf(placement) ==
  { << CellRow(placement.row, placement.isHorizontal, n),
       CellCol(placement.col, placement.isHorizontal, n) >> :
    n \in 0..(Len(placement.word) - 1) }

\* C1: when the words of the request are pairwise distinct after
\* normalization, the words of the returned placements and the returned
\* unplacedWords are disjoint, neither list has a duplicate, and together they
\* are exactly the normalized words of the request.
C1_PlacedAndUnplacedPartitionInput ==
  (Done /\ NoDuplicate(CleanWords(inputWords))) =>
    LET placed == PlacedWords(returned[1].placements)
        unplaced == returned[1].unplacedWords
    IN  /\ Range(placed) \cap Range(unplaced) = {}
        /\ NoDuplicate(placed)
        /\ NoDuplicate(unplaced)
        /\ Range(placed) \cup Range(unplaced) = Range(CleanWords(inputWords))

\* C1 witness: a request of three distinct words returned with two of them
\* placed and one unplaced, one raw word being blank or padded.
C1_Witness ==
  /\ Done
  /\ NoDuplicate(CleanWords(inputWords))
  /\ Len(inputWords) = 3
  /\ CleanWords(inputWords) # inputWords
  /\ Len(returned[1].placements) >= 1
  /\ Len(returned[1].unplacedWords) >= 1
  /\ maxPlaced > 0 /\ bestFrom > 1

\* C2: the placement committed last, in the first pass or in a retry sweep,
\* satisfies isValidPlacement on the grid as it was just before it was written.
C2_CommittedPlacementWasValid ==
  lastCommit # <<>> =>
    isValidPlacement(lastCommit[1].gridBefore, lastCommit[1].placement.word,
                     lastCommit[1].placement.row, lastCommit[1].placement.col,
                     lastCommit[1].placement.isHorizontal)

\* C2 witness: a commit made in a retry sweep, onto a grid that already held
\* two words.
C2_Witness ==
  /\ lastCommit # <<>>
  /\ lastCommit[1].inRetry
  /\ lastCommit[1].index = 3

\* C3: for a request of letters only, the returned grid has height rows of
\* width cells and every cell is empty or one uppercase letter A-Z.
LettersOnly(ws) ==
  \A n \in 1..Len(ws) : \A m \in 1..Len(ws[n]) :
    ws[n][m] \in UpperLetters \cup LowerLetters

C3_GridShapeAndAlphabet ==
  (Done /\ LettersOnly(inputWords)) =>
    /\ Len(returned[1].grid) = height
    /\ \A r \in 1..height :
         /\ Len(returned[1].grid[r]) = width
         /\ \A c \in 1..width :
              returned[1].grid[r][c] \in {NULL} \cup UpperLetters

\* C3 witness: a returned grid on which a word typed in lower case lies.
C3_Witness ==
  /\ Done
  /\ LettersOnly(inputWords)
  /\ <<"c", "a">> \in Range(inputWords)
  /\ <<"C", "A">> \in Range(PlacedWords(returned[1].placements))
  /\ Len(returned[1].placements) >= 2

\* C4: the letters of the returned placements, written onto a blank grid of
\* the same width and height the way handleLoad does, give the returned grid.
C4_ReplayGivesReturnedGrid ==
  Done => ReconstructGrid(returned[1].placements, width, height) = returned[1].grid

\* C4 witness: a returned layout of three crossing words.
C4_Witness ==
  /\ Done
  /\ Len(returned[1].placements) = 3
  /\ \E n \in 1..3 : Len(returned[1].placements[n].word) = 3

\* (row, col) is a cell of the grid.
InGrid(g, r, c) == r >= 0 /\ r < GridHeight(g) /\ c >= 0 /\ c < GridWidth(g)

\* (row, col) is outside the grid or an empty cell of it.
OutsideOrEmpty(g, r, c) == ~InGrid(g, r, c) \/ At(g, r, c) = NULL

\* Rule 1: the whole span of the word lies inside the grid.
SpanInside(g, word, row, col, isHorizontal) ==
  \A n \in 0..(Len(word) - 1) :
    InGrid(g, CellRow(row, isHorizontal, n), CellCol(col, isHorizontal, n))

\* Rule 2: the cell before the start and the cell after the end, along the
\* axis of the word, are outside the grid or empty.
TerminatorsFree(g, word, row, col, isHorizontal) ==
  /\ OutsideOrEmpty(g, CellRow(row, isHorizontal, 0 - 1),
                       CellCol(col, isHorizontal, 0 - 1))
  /\ OutsideOrEmpty(g, CellRow(row, isHorizontal, Len(word)),
                       CellCol(col, isHorizontal, Len(word)))

\* Rule 3: every covered cell is empty or holds the letter of the word there.
LettersCompatible(g, word, row, col, isHorizontal) ==
  \A n \in 0..(Len(word) - 1) :
    At(g, CellRow(row, isHorizontal, n), CellCol(col, isHorizontal, n))
      \in {NULL, Ch(word, n)}

\* Rule 4: both perpendicular neighbours of every covered cell that is empty
\* are outside the grid or empty.
NoParallelNeighbour(g, word, row, col, isHorizontal) ==
  \A n \in 0..(Len(word) - 1) :
    LET r == CellRow(row, isHorizontal, n)
        c == CellCol(col, isHorizontal, n)
    IN  At(g, r, c) = NULL =>
          IF isHorizontal
            THEN OutsideOrEmpty(g, r - 1, c) /\ OutsideOrEmpty(g, r + 1, c)
            ELSE OutsideOrEmpty(g, r, c - 1) /\ OutsideOrEmpty(g, r, c + 1)

FourRules(g, word, row, col, isHorizontal) ==
  /\ SpanInside(g, word, row, col, isHorizontal)
  /\ TerminatorsFree(g, word, row, col, isHorizontal)
  /\ LettersCompatible(g, word, row, col, isHorizontal)
  /\ NoParallelNeighbour(g, word, row, col, isHorizontal)

\* C5: a call of isValidPlacement returns true exactly when the four rules
\* hold: span inside the grid, both terminator cells outside or empty, every
\* covered cell empty or holding the word's letter, and no filled perpendicular
\* neighbour beside a covered cell that is empty.
C5_ValidIffFourRules ==
  vCall # <<>> =>
    (vCall[1].result <=>
       FourRules(vGrid, vWord, vCall[1].row, vCall[1].col, vCall[1].isHorizontal))

\* C5 witness: a call that returned true for a word of two or more letters
\* crossing a letter whose own perpendicular neighbour is filled.
C5_Witness ==
  /\ vCall # <<>>
  /\ vCall[1].result
  /\ Len(vWord) >= 2
  /\ \E n \in 0..(Len(vWord) - 1) :
       LET r == CellRow(vCall[1].row, vCall[1].isHorizontal, n)
           c == CellCol(vCall[1].col, vCall[1].isHorizontal, n)
       IN  /\ At(vGrid, r, c) # NULL
           /\ IF vCall[1].isHorizontal
                THEN ~OutsideOrEmpty(vGrid, r + 1, c)
                ELSE ~OutsideOrEmpty(vGrid, r, c + 1)

\* C6: the best result kept is that of the earliest attempt that placed the
\* most words of all attempts returned so far (a later attempt replaces it only
\* by placing strictly more, the first attempt always becomes the best), and
\* generateCrossword returns that result.
C6_ReturnsEarliestBest ==
  /\ bestResult # <<>> =>
       /\ bestFrom = firstMaxAt
       /\ Len(bestResult[1].placements) = maxPlaced
  /\ firstMaxAt # 0 => bestResult # <<>>
  /\ Done => returned = bestResult

\* C6 witness: a call that returned the result of attempt 2, 3 or 4 after
\* later attempts that placed as many words or fewer.
C6_Witness ==
  /\ Done
  /\ bestFrom \in 2..SortedStrategies
  /\ strategy = LastStrategy
  /\ maxPlaced >= 2

\* C7 (as claimed): once an attempt has returned with nothing unplaced, no
\* further attempt is started and that result is returned.
C7_StopsAtFirstAllPlaced ==
  allPlacedAt # 0 =>
    /\ strategy = allPlacedAt
    /\ pc = "done"
    /\ Len(returned[1].unplacedWords) = 0

\* A sequence is a rearrangement of another.
IsPermutation(a, b) ==
  /\ Len(a) = Len(b)
  /\ \A x \in Range(a) \cup Range(b) :
       Cardinality({n \in 1..Len(a) : a[n] = x})
         = Cardinality({n \in 1..Len(b) : b[n] = x})

LongestFirst(ws) ==
  \A a \in 1..Len(ws) : \A b \in 1..Len(ws) : a < b => Len(ws[a]) >= Len(ws[b])

ShortestFirst(ws) ==
  \A a \in 1..Len(ws) : \A b \in 1..Len(ws) : a < b => Len(ws[a]) <= Len(ws[b])

InAttempt == pc \in {"firstPass", "retryTest", "retrySweep", "attemptReturn"}

\* The order and seed orientation attempt number `strategy` runs with.
C8_OrderOfAttempt ==
  /\ strategy \in 0..12
  /\ InAttempt =>
       /\ strategy >= 1
       /\ IsPermutation(words, cleanedWords)
       /\ strategy \in {1, 2} => LongestFirst(words)
       /\ strategy \in {3, 4} => ShortestFirst(words)
       /\ firstWordHorizontal <=> strategy \in {1, 3, 5, 7, 9, 11}

\* The vertical attempt of a shuffle round runs with the order of the
\* horizontal attempt before it.
C8_RoundKeepsOrder ==
  (strategy' = strategy + 1 /\ strategy' \in {6, 8, 10, 12}) => words' = words

\* C8: the attempts run in the fixed order longest-first horizontal,
\* longest-first vertical, shortest-first horizontal, shortest-first vertical,
\* then four rounds of one shuffled order tried horizontally and then
\* vertically, and one call runs at most 12 attempts.
C8_FixedStrategySequence == []C8_OrderOfAttempt /\ [][C8_RoundKeepsOrder]_vars

\* C8 witness: the twelfth attempt running on an order that is neither of the
\* two sorted ones.
C8_Witness ==
  /\ InAttempt
  /\ strategy = 12
  /\ ~LongestFirst(words)
  /\ ~ShortestFirst(words)

\* n = floor(x / 2)
IsHalfFloor(n, x) == 2 * n <= x /\ x <= 2 * n + 1

\* The placement is the centered one of its word for the seed orientation.
Centered(placement, horizontal) ==
  /\ placement.isHorizontal = horizontal
  /\ IF horizontal
       THEN /\ IsHalfFloor(placement.row, height)
            /\ IsHalfFloor(placement.col, width - Len(placement.word))
            /\ Len(placement.word) <= width
       ELSE /\ IsHalfFloor(placement.row, height - Len(placement.word))
            /\ IsHalfFloor(placement.col, width)
            /\ Len(placement.word) <= height

\* C9: the first placement an attempt commits is the centered one of the seed
\* orientation, and its word is no longer than the grid along that axis; so
\* is the first placement of the result returned.
C9_FirstPlacementCentered ==
  /\ Len(placements) > 0 => Centered(placements[1], firstWordHorizontal)
  /\ (lastCommit # <<>> /\ lastCommit[1].index = 1) =>
       /\ ~lastCommit[1].inRetry
       /\ Centered(lastCommit[1].placement, firstWordHorizontal)
  /\ (Done /\ Len(returned[1].placements) > 0) =>
       Centered(returned[1].placements[1], SeedHorizontal(bestFrom))

\* C9 witness: a vertical first placement of a three-letter word, committed
\* after an earlier word of the order did not fit.
C9_Witness ==
  /\ lastCommit # <<>>
  /\ lastCommit[1].index = 1
  /\ ~firstWordHorizontal
  /\ Len(unplacedWords) > 0
  /\ width > 1

\* Two words have a letter in common.
ShareLetter(a, b) == Range(a) \cap Range(b) # {}

\* Word n of the list shares a letter with another word of the list.
SharesWithAnother(ws, w) ==
  \E a \in 1..Len(ws) : \E b \in 1..Len(ws) :
    a # b /\ ws[a] = w /\ ShareLetter(w, ws[b])

CAT == <<"C", "A", "T">>
DOG == <<"D", "O", "G">>

\* C10: a placement committed after the first covers a cell that already held
\* the same letter and that an earlier placement of the other orientation
\* passes through; so a placed word other than the first shares a letter with
\* another word of the request, and CAT with DOG on a grid either fits gives
\* one placed word and one unplaced word.
C10_LaterPlacementsCross ==
  /\ (lastCommit # <<>> /\ lastCommit[1].index > 1) =>
       LET p == lastCommit[1].placement
       IN  \E n \in 0..(Len(p.word) - 1) : \E q \in 1..(lastCommit[1].index - 1) :
             LET r == CellRow(p.row, p.isHorizontal, n)
                 c == CellCol(p.col, p.isHorizontal, n)
             IN  /\ At(lastCommit[1].gridBefore, r, c) = Ch(p.word, n)
                 /\ placements[q].isHorizontal # p.isHorizontal
                 /\ <<r, c>> \in CellsOf(placements[q])
  /\ \A n \in 2..Len(placements) :
       SharesWithAnother(cleanedWords, placements[n].word)
  /\ Done =>
       /\ \A n \in 2..Len(returned[1].placements) :
            SharesWithAnother(cleanedWords, returned[1].placements[n].word)
       /\ (Range(cleanedWords) = {CAT, DOG} /\ Len(cleanedWords) = 2
             /\ (width >= 3 \/ height >= 3)) =>
            /\ Len(returned[1].placements) = 1
            /\ Len(returned[1].unplacedWords) = 1

\* C10 witness: CAT and DOG returned with one of them placed and the other
\* unplaced, on a grid where a crossing word would have had room.
C10_Witness ==
  /\ Done
  /\ cleanedWords = <<CAT, DOG>>
  /\ width = 3 /\ height = 3
  /\ Len(returned[1].placements) = 1
  /\ returned[1].unplacedWords = <<DOG>>

\* A word that fits neither across nor down.
TooLong(w) == Len(w) > width /\ Len(w) > height

\* Every cell of the grid is empty.
AllEmpty(g) ==
  \A r \in 0..(GridHeight(g) - 1) : \A c \in 0..(GridWidth(g) - 1) :
    At(g, r, c) = NULL

\* What C11 says of a result returned.
C11_Returned ==
  Done =>
    /\ \A n \in 1..Len(cleanedWords) :
         TooLong(cleanedWords[n]) =>
           /\ cleanedWords[n] \in Range(returned[1].unplacedWords)
           /\ cleanedWords[n] \notin Range(PlacedWords(returned[1].placements))
    /\ Len(returned[1].placements) = 0 =>
         /\ AllEmpty(returned[1].grid)
         /\ Len(returned[1].unplacedWords) = Len(cleanedWords)

\* A call that has not returned has a step to take: the next statement of
\* generateCrossword, or an iteration of one of attemptPlacement's two loops.
C11_CanStep ==
  ~Done =>
    \/ ENABLED (Clean \/ StartSorted \/ StartShuffledH \/ StartShuffledV)
    \/ ENABLED (FirstPassEnd \/ RetryTest \/ RetrySweepEnd \/ AttemptReturn)
    \/ pc = "firstPass" /\ i < Len(words)
    \/ pc = "retrySweep" /\ k < Len(unplacedWords)

\* Words of the attempt not placed so far.
NotYetPlaced ==
  IF pc = "retrySweep"
    THEN Len(stillUnplaced) + Len(unplacedWords) - k
    ELSE Len(unplacedWords)

RankBase == 2 * MaxWords + 4

\* How far the call is from its return: attempts left and the part of the
\* attempt, then the work left in that part.
Rank ==
  LET left == 4 * (LastStrategy - strategy)
      stage == CASE pc = "clean" -> left + 5
                 [] pc = "strategy" -> left + 1
                 [] pc = "firstPass" -> left + 4
                 [] pc \in {"retryTest", "retrySweep"} -> left + 3
                 [] pc = "attemptReturn" -> left + 2
                 [] OTHER -> 0
      first == CASE pc = "firstPass" -> Len(words) - i
                 [] pc \in {"retryTest", "retrySweep"} ->
                      2 * NotYetPlaced + (IF madeProgress THEN 1 ELSE 0)
                 [] OTHER -> 0
      second == IF pc = "retrySweep" THEN Len(unplacedWords) - k + 1 ELSE 0
  IN  (stage * RankBase + first) * RankBase + second

C11_RankInRange ==
  /\ Rank >= 0
  /\ NotYetPlaced \in 0..MaxWords
  /\ pc = "firstPass" => i \in 0..Len(words)
  /\ pc = "retrySweep" => k \in 0..Len(unplacedWords)

\* C11: every call returns a result (it always has a step to take and every
\* step brings it nearer to its return); in the result a word longer than both
\* the width and the height is in unplacedWords and in no placement, and when
\* nothing was placed the grid is entirely empty.
C11_TooLongWordsAreUnplaced ==
  /\ [](C11_Returned /\ C11_CanStep /\ C11_RankInRange)
  /\ [][Rank' < Rank]_vars

\* C11 witness: two words that fit nowhere returned after all twelve attempts
\* with nothing placed.
C11_Witness ==
  /\ Done
  /\ Len(cleanedWords) = 2
  /\ \A n \in 1..Len(cleanedWords) : TooLong(cleanedWords[n])
  /\ Len(returned[1].placements) = 0
  /\ strategy = LastStrategy

\* The cell is in the grid and holds a letter.
HoldsLetter(g, r, c) == InGrid(g, r, c) /\ At(g, r, c) # NULL

\* The cell starts an Across, a Down entry.
AcrossStart(g, r, c) ==
  HoldsLetter(g, r, c) /\ OutsideOrEmpty(g, r, c - 1) /\ HoldsLetter(g, r, c + 1)

DownStart(g, r, c) ==
  HoldsLetter(g, r, c) /\ OutsideOrEmpty(g, r - 1, c) /\ HoldsLetter(g, r + 1, c)

GridCells(g) == (0..(GridHeight(g) - 1)) \X (0..(GridWidth(g) - 1))

\* The numbered cells before (r, c) in the scan, row by row.
NumberedBefore(numbers, r, c) ==
  { cell \in GridCells(numbers) :
      /\ At(numbers, cell[1], cell[2]) # NoNumber
      /\ cell[1] < r \/ (cell[1] = r /\ cell[2] < c) }

\* The entries of a list at (r, c), by their index.
EntriesAt(list, r, c) ==
  { n \in 1..Len(list) : list[n].row = r /\ list[n].col = c }

\* The first call was made on a grid of at least one row.
NumberedGrid == nCall # <<>> /\ nGrid # <<>> /\ Len(nGrid[1]) > 0

\* C12: a cell has a number exactly when it starts an Across or a Down entry;
\* its number is one more than the number of numbered cells before it in the
\* scan (so the numbers are 1..k in scan order); a start of an Across entry
\* has that number in acrossWords, a start of a Down entry in downWords, a
\* start of both in both.
C12_NumbersStartCellsInScanOrder ==
  NumberedGrid =>
    LET g == nGrid[1]
        res == nCall[1]
    IN  \A cell \in GridCells(g) :
          LET r == cell[1]
              c == cell[2]
              number == At(res.cellNumbers, r, c)
          IN  /\ number # NoNumber <=> (AcrossStart(g, r, c) \/ DownStart(g, r, c))
              /\ number # NoNumber =>
                   number = Cardinality(NumberedBefore(res.cellNumbers, r, c)) + 1
              /\ IF AcrossStart(g, r, c)
                   THEN \E n \in EntriesAt(res.acrossWords, r, c) :
                          res.acrossWords[n].number = number
                   ELSE EntriesAt(res.acrossWords, r, c) = {}
              /\ IF DownStart(g, r, c)
                   THEN \E n \in EntriesAt(res.downWords, r, c) :
                          res.downWords[n].number = number
                   ELSE EntriesAt(res.downWords, r, c) = {}

\* C12 witness: a numbered grid whose first cell starts both an Across and a
\* Down entry and which has a third numbered cell.
C12_Witness ==
  /\ NumberedGrid
  /\ AcrossStart(nGrid[1], 0, 0)
  /\ DownStart(nGrid[1], 0, 0)
  /\ \E cell \in GridCells(nGrid[1]) : At(nCall[1].cellNumbers, cell[1], cell[2]) = 3

\* The letters of the grid from (r, c) on, n of them, along the axis.
Letters(g, r, c, isHorizontal, n) ==
  [m \in 1..n |-> At(g, CellRow(r, isHorizontal, m - 1),
                        CellCol(c, isHorizontal, m - 1))]

\* n letters from (r, c) on are a maximal run of letters along the axis.
MaximalRun(g, r, c, isHorizontal, n) ==
  /\ \A m \in 0..(n - 1) :
       HoldsLetter(g, CellRow(r, isHorizontal, m), CellCol(c, isHorizontal, m))
  /\ OutsideOrEmpty(g, CellRow(r, isHorizontal, 0 - 1),
                       CellCol(c, isHorizontal, 0 - 1))
  /\ OutsideOrEmpty(g, CellRow(r, isHorizontal, n), CellCol(c, isHorizontal, n))

\* The list has exactly one entry for each maximal run of two or more letters
\* along the axis, with the letters of the run, in ascending order of number.
ListsTheRuns(g, list, isHorizontal) ==
  /\ \A n \in 1..Len(list) :
       /\ Len(list[n].word) >= 2
       /\ MaximalRun(g, list[n].row, list[n].col, isHorizontal, Len(list[n].word))
       /\ list[n].word
            = Letters(g, list[n].row, list[n].col, isHorizontal, Len(list[n].word))
  /\ \A cell \in GridCells(g) :
       \A len \in 2..(GridHeight(g) + GridWidth(g)) :
         MaximalRun(g, cell[1], cell[2], isHorizontal, len) =>
           Cardinality(EntriesAt(list, cell[1], cell[2])) = 1
  /\ \A a \in 1..Len(list) : \A b \in 1..Len(list) :
       a < b => list[a].number < list[b].number

\* C13: acrossWords has exactly one entry for each maximal horizontal run of
\* two or more letters, with the letters of the run from left to right and the
\* position of its first cell, and so has downWords for the vertical runs;
\* each list is strictly ascending by number and holds no word of fewer than
\* two letters.
C13_EntriesAreTheMaximalRuns ==
  NumberedGrid =>
    /\ ListsTheRuns(nGrid[1], nCall[1].acrossWords, TRUE)
    /\ ListsTheRuns(nGrid[1], nCall[1].downWords, FALSE)

\* C13 witness: a numbered grid with two Across entries, one of them reaching
\* the right edge, and a Down entry reaching the bottom edge.
C13_Witness ==
  /\ NumberedGrid
  /\ Len(nCall[1].acrossWords) >= 2
  /\ \E n \in 1..Len(nCall[1].acrossWords) :
       nCall[1].acrossWords[n].col + Len(nCall[1].acrossWords[n].word)
         = GridWidth(nGrid[1])
  /\ \E n \in 1..Len(nCall[1].downWords) :
       nCall[1].downWords[n].row + Len(nCall[1].downWords[n].word)
         = GridHeight(nGrid[1])

\* The second call returned what the first returned, and cellNumbers has the
\* rows and columns of the grid.
C14_SameResult ==
  /\ nAgain # <<>> => nAgain = nCall
  /\ NumberedGrid =>
       /\ Len(nCall[1].cellNumbers) = GridHeight(nGrid[1])
       /\ \A r \in 1..Len(nCall[1].cellNumbers) :
            Len(nCall[1].cellNumbers[r]) = GridWidth(nGrid[1])

C15_InvalidDimensionsAreRefused ==
  (width <= 0 \/ height <= 0) => (~InAttempt /\ returned = <<>>)

\* C16 (as claimed): the answer of a lookup started for an earlier selection
\* is written neither to suggestions nor to the loading flag: when a lookup
\* is answered after the selection has changed, both stay as they were.
C16_StaleResponseIsDiscarded ==
  [][\A lookup \in inFlight \ inFlight' :
       lookup.change # changes =>
         /\ suggestions' = suggestions
         /\ isLoadingSuggestions' = isLoadingSuggestions]_vars

\* C18 (as claimed): the placements getPlacementsFromGrid reads from a grid
\* generateCrossword returned, replayed by handleLoad on an empty grid of the
\* same width and height, give that grid again, cell for cell.
C18_SaveLoadRoundTrip ==
  Done =>
    ReconstructGrid(getPlacementsFromGrid(returned[1].grid), width, height)
      = returned[1].grid

\* The cell just before the start of a placement and the cell just after its
\* end, along its axis, are outside g or empty in g.
IsOneMaximalRun(g, p) ==
  /\ OutsideOrEmpty(g, CellRow(p.row, p.isHorizontal, 0 - 1),
                       CellCol(p.col, p.isHorizontal, 0 - 1))
  /\ OutsideOrEmpty(g, CellRow(p.row, p.isHorizontal, Len(p.word)),
                       CellCol(p.col, p.isHorizontal, Len(p.word)))

\* C20 (as claimed): in the grid an attemptPlacement run ends with, the word of
\* every committed placement is one maximal run of letters along its axis: the
\* cell before its start and the cell after its end are empty or out of
\* bounds.
C20_PlacementsAreMaximalRuns ==
  pc = "attemptReturn" =>
    \A n \in 1..Len(placements) : IsOneMaximalRun(grid, placements[n])

\* What App stores of the numbering, as generateNumbering returns it.
StoredNumbering ==
  [cellNumbers |-> cellNumbers, acrossWords |-> acrossWords,
   downWords |-> downWords]

\* C17: after any sequence of App operations the stored cellNumbers,
\* acrossWords and downWords are generateNumbering of the stored grid, which
\* is the empty numbering while the grid is null, and a step that changes the
\* grid stores the numbering of the new grid.
C17_NumberingFollowsGrid ==
  /\ [](StoredNumbering = generateNumbering(appGrid))
  /\ [](appGrid = <<>> =>
          cellNumbers = <<>> /\ acrossWords = <<>> /\ downWords = <<>>)
  /\ [][appGrid' # appGrid =>
          StoredNumbering' = generateNumbering(appGrid')]_vars

\* C17 witness: a letter typed with two cells selected has just made an across
\* entry on a grid that was loaded or generated earlier.
C17_Witness ==
  /\ lastOp = "keys"
  /\ opCount > 1
  /\ appGrid # <<>>
  /\ Len(acrossWords) > 0
  /\ StoredNumbering = generateNumbering(appGrid)

\* A placement of the loaded data has a letter outside
\* [0, gridHeight) x [0, gridWidth).
ReachesOutside(data) ==
  \E n \in 1..Len(data.placements) : \E cell \in CellsOf(data.placements[n]) :
    ~(/\ cell[1] >= 0 /\ cell[1] < data.gridHeight
      /\ cell[2] >= 0 /\ cell[2] < data.gridWidth)

\* C19 (as claimed): when the placements of the loaded data reach outside the
\* grid, handleLoad assigns to no cell outside the grid, the load is reported
\* as a failure, and generateNumbering is not called on the grid reconstructed
\* so far.
C19_LoadRefusesOutOfBounds ==
  (lastLoad # <<>> /\ ReachesOutside(lastLoad[1].data)) =>
    /\ lastLoad[1].outside = {}
    /\ lastLoad[1].alerted
    /\ lastLoad[1].numbered = <<>>

\* C29 (as claimed): shiftGrid(direction, true) returns on every grid, a grid
\* without letters included: App is never left inside the while loop.
C29_ShiftToEdgeTerminates == appPc # "shifting"

\* C30 (as claimed): after a letter key, Backspace or Delete with two or more
\* cells selected, every selected cell of the stored grid holds the letter
\* (is empty after Backspace or Delete).
C30_EveryCellOfAKeyEventIsSet ==
  (lastKey # <<>> /\ Len(lastKey[1].selectedCells) >= 2) =>
    \A n \in 1..Len(lastKey[1].selectedCells) :
      At(appGrid[1], lastKey[1].selectedCells[n][1],
                     lastKey[1].selectedCells[n][2]) = lastKey[1].letter

\* The filled cells (r, c) and its neighbour after it along the axis lie in
\* one placement of that axis.
InOnePlacement(ps, r, c, isHorizontal) ==
  \E n \in 1..Len(ps) :
    /\ ps[n].isHorizontal = isHorizontal
    /\ <<r, c>> \in CellsOf(ps[n])
    /\ << CellRow(r, isHorizontal, 1), CellCol(c, isHorizontal, 1) >> \in CellsOf(ps[n])

\* Every entry of the list is a placement of ps: same word, start cell and
\* orientation.
EntriesArePlacements(entries, ps, isHorizontal) ==
  \A e \in 1..Len(entries) : \E n \in 1..Len(ps) :
    ps[n] = [word |-> entries[e].word, row |-> entries[e].row,
             col |-> entries[e].col, isHorizontal |-> isHorizontal]

\* The grid g holds no word but those of the placements ps.
NoUnintendedWords(g, ps) ==
  /\ \A r \in 0..(GridHeight(g) - 1) : \A c \in 0..(GridWidth(g) - 1) :
     \A isHorizontal \in BOOLEAN :
       (/\ HoldsLetter(g, r, c)
        /\ HoldsLetter(g, CellRow(r, isHorizontal, 1), CellCol(c, isHorizontal, 1)))
         => InOnePlacement(ps, r, c, isHorizontal)
  /\ EntriesArePlacements(generateNumbering(<<g>>).acrossWords, ps, TRUE)
  /\ EntriesArePlacements(generateNumbering(<<g>>).downWords, ps, FALSE)

\* C21: in every layout attemptPlacement builds, two filled cells next to each
\* other in a row (column) lie in one common across (down) placement, and
\* every across and down entry generateNumbering reads from the grid is a
\* committed placement with the same word, start cell and orientation.
C21_NoUnintendedWords ==
  /\ InAttempt => NoUnintendedWords(grid, placements)
  /\ Done => NoUnintendedWords(returned[1].grid, returned[1].placements)

\* C21 witness: an attempt ends with three words placed, across and down.
C21_Witness ==
  /\ pc = "attemptReturn"
  /\ Len(placements) = 3
  /\ Len(generateNumbering(<<grid>>).acrossWords) > 0
  /\ Len(generateNumbering(<<grid>>).downWords) > 0
  /\ NoUnintendedWords(grid, placements)

\* C22 (as claimed): whenever a retry sweep runs, the placement list holds at
\* least one placement.
C22_RetrySweepHasAPlacement == pc = "retrySweep" => Len(placements) >= 1

\* C22 (amended): a word committed by a retry sweep is never the first
\* placement; a sweep that runs while nothing is placed (the first pass
\* deferred every word) commits nothing, defers every word again and is the
\* last sweep of the attempt.
C22_RetryNeverPlacesFirst ==
  /\ [](/\ (lastCommit # <<>> /\ lastCommit[1].inRetry) => lastCommit[1].index > 1
        /\ (pc = "retrySweep" /\ Len(placements) = 0) =>
             /\ ~madeProgress
             /\ stillUnplaced = SubSeq(unplacedWords, 1, k))
  /\ [][(pc = "retrySweep" /\ Len(placements) = 0) =>
          /\ Len(placements') = 0
          /\ pc' \in {"retrySweep", "retryTest"}
          /\ pc' = "retryTest" => (~madeProgress' /\ unplacedWords' = unplacedWords)]_vars
  /\ [][(pc = "retryTest" /\ Len(placements) = 0 /\ ~madeProgress) =>
          pc' = "attemptReturn"]_vars

\* C22 witness: a retry sweep has gone over two deferred words with nothing
\* placed.
C22_Witness ==
  /\ pc = "retrySweep"
  /\ Len(placements) = 0
  /\ k = 2
  /\ Len(stillUnplaced) = 2

\* No word of the list has a candidate as a non-first word on the grid g with
\* the placements ps.
NoneCanBePlaced(ws, g, ps) ==
  \A n \in 1..Len(ws) : findValidPlacements(g, ws[n], ps, FALSE, TRUE) = <<>>

\* C23: attemptPlacement returns at a fixed point: the non-first search finds
\* no candidate on the final grid for any word left in unplacedWords, in every
\* attempt and in the result generateCrossword returns.
C23_ReturnsAtFixedPoint ==
  /\ pc = "attemptReturn" => NoneCanBePlaced(unplacedWords, grid, placements)
  /\ Done => NoneCanBePlaced(returned[1].unplacedWords, returned[1].grid,
                             returned[1].placements)

\* C23 witness: an attempt returns after a retry sweep placed a deferred word
\* and a later sweep found nothing for the word that is left.
C23_Witness ==
  /\ pc = "attemptReturn"
  /\ lastCommit # <<>>
  /\ lastCommit[1].inRetry
  /\ Len(unplacedWords) > 0
  /\ NoneCanBePlaced(unplacedWords, grid, placements)

\* C24: a retry sweep that is followed by another sweep has taken at least one
\* word out of the deferred bucket, so an attempt enters at most one sweep more
\* than the number of words its first pass deferred (and none when it deferred
\* none); every step of the attempt brings it nearer to its return.
C24_SweepsAreBounded ==
  /\ [](/\ sweeps <= deferred + 1
        /\ (deferred = 0 => sweeps = 0)
        /\ (pc \in {"retryTest", "retrySweep"} /\ sweeps > 1) =>
             Len(unplacedWords) <= deferred - (sweeps - 1))
  /\ [][(pc = "retrySweep" /\ pc' = "retryTest"
           /\ madeProgress' /\ Len(unplacedWords') > 0) =>
          Len(unplacedWords') < Len(unplacedWords)]_vars
  /\ [][(pc \in {"firstPass", "retryTest", "retrySweep"}) => (Rank' < Rank)]_vars

\* C24 witness: an attempt returns after two sweeps, the first of which placed
\* a deferred word.
C24_Witness ==
  /\ pc = "attemptReturn"
  /\ sweeps = 2
  /\ deferred = 2
  /\ Len(unplacedWords) = 1

\* The positions <<row, col, isHorizontal>> that put some letter of the word
\* on an equal letter of a placed word, across that word, and that
\* isValidPlacement accepts on g.
CrossingPositions(g, word, ps) ==
  { pos \in ((0 - MaxDim)..MaxDim) \X ((0 - MaxDim)..MaxDim) \X BOOLEAN :
      /\ isValidPlacement(g, word, pos[1], pos[2], pos[3])
      /\ \E n \in 1..Len(ps) :
         \E a \in 0..(Len(word) - 1) : \E b \in 0..(Len(ps[n].word) - 1) :
           /\ Ch(word, a) = Ch(ps[n].word, b)
           /\ pos[3] # ps[n].isHorizontal
           /\ CellRow(pos[1], pos[3], a) = CellRow(ps[n].row, ps[n].isHorizontal, b)
           /\ CellCol(pos[2], pos[3], a) = CellCol(ps[n].col, ps[n].isHorizontal, b) }

\* The candidates found are these positions, each once, with the number of
\* filled cells under the word as intersections.
AreTheCrossings(found, g, word, ps) ==
  /\ { << found[n].row, found[n].col, found[n].isHorizontal >> :
         n \in 1..Len(found) } = CrossingPositions(g, word, ps)
  /\ \A a \in 1..Len(found) : \A b \in 1..Len(found) :
       (/\ found[a].row = found[b].row
        /\ found[a].col = found[b].col
        /\ found[a].isHorizontal = found[b].isHorizontal) => a = b
  /\ \A n \in 1..Len(found) :
       found[n].intersections =
         Cardinality({ cell \in CellsOf([word |-> word, row |-> found[n].row,
                                         col |-> found[n].col,
                                         isHorizontal |-> found[n].isHorizontal]) :
                         At(g, cell[1], cell[2]) # NULL })

\* The findValidPlacements of part_000 meets C25: for every word of an attempt
\* and the grid and placements of any moment of it, the non-first search
\* returns exactly the valid positions that cross a placed word on an equal
\* letter, none twice, each with the count of its cells already filled.
DeduplicatedSearchFindsTheCrossings ==
  (InAttempt /\ Len(placements) > 0) =>
    \A n \in 1..Len(words) :
      AreTheCrossings(findValidPlacements(grid, words[n], placements, FALSE, TRUE),
                      grid, words[n], placements)

\* The word generateCrossword is about to search, <<>> for none.
SearchedNext ==
  IF pc = "firstPass" /\ i < Len(words) THEN << words[i + 1] >>
  ELSE IF pc = "retrySweep" /\ k < Len(unplacedWords) THEN << unplacedWords[k + 1] >>
  ELSE <<>>

\* C25 (as claimed), for the findValidPlacements of crosswordGenerator.js that
\* App imports: whenever a non-first word is searched, the candidates returned
\* are exactly the valid positions that cross a placed word on an equal
\* letter, no two of them with the same (row, col, isHorizontal), each with the
\* count of its cells already filled.
C25_SearchFindsExactlyTheCrossings ==
  (SearchedNext # <<>> /\ Len(placements) > 0) =>
    AreTheCrossings(utilsFindValidPlacements(grid, SearchedNext[1], placements),
                    grid, SearchedNext[1], placements)

\* The candidates the search returned for the word of the last commit: the
\* search is a function of the grid before the commit, the word, the
\* placements before it and the seeding arguments.
CandidatesOfLastCommit ==
  LET c == lastCommit[1]
  IN  findValidPlacements(c.gridBefore, c.placement.word,
                          SubSeq(placements, 1, c.index - 1),
                          c.index = 1 /\ ~c.inRetry, firstWordHorizontal)

\* Candidate n of cs is at the committed position p.
IsAt(cs, n, p) ==
  /\ cs[n].row = p.row
  /\ cs[n].col = p.col
  /\ cs[n].isHorizontal = p.isHorizontal

\* C26: the position a word is committed at is a candidate of its search on
\* the grid of that moment whose score intersections * 100 - distanceFromCenter
\* is the maximum over all candidates found, and every candidate generated
\* before it scores strictly less (among equal maxima the first generated
\* wins); within an attempt the placement list only grows at its end and a
\* filled cell keeps its letter (no placement is undone or moved).
C26_BestScoreFirstGeneratedNeverUndone ==
  /\ [](lastCommit # <<>> =>
        LET cs == CandidatesOfLastCommit
        IN  \E n \in 1..Len(cs) :
              /\ IsAt(cs, n, lastCommit[1].placement)
              /\ placements[lastCommit[1].index] = lastCommit[1].placement
              /\ \A m \in 1..Len(cs) :
                    scorePlacement2(cs[m]) <= scorePlacement2(cs[n])
              /\ \A m \in 1..(n - 1) :
                    scorePlacement2(cs[m]) < scorePlacement2(cs[n]))
  /\ [][(pc \in {"firstPass", "retryTest", "retrySweep"}) =>
         /\ Len(placements') >= Len(placements)
         /\ SubSeq(placements', 1, Len(placements)) = placements
         /\ \A r \in 0..(height - 1) : \A c \in 0..(width - 1) :
              At(grid, r, c) # NULL => At(grid', r, c) = At(grid, r, c)]_vars

\* C26 witness: a word was committed on a letter of an earlier word, its
\* search had found two candidates of the same, maximal score, and the one
\* generated first was taken.
C26_Witness ==
  /\ lastCommit # <<>>
  /\ lastCommit[1].index > 1
  /\ LET cs == CandidatesOfLastCommit
     IN  \E n \in 1..Len(cs) : \E m \in (n + 1)..Len(cs) :
           /\ IsAt(cs, n, lastCommit[1].placement)
           /\ scorePlacement2(cs[m]) = scorePlacement2(cs[n])

\* Twice the distanceFromCenter of every position of words[1] that passes the
\* bounds check of isValidPlacement on the grid.
InBoundsDistances ==
  { DistanceFromCenter2(grid, words[1], pos[1], pos[2], pos[3]) :
      pos \in { q \in ((0 - 1)..height) \X ((0 - 1)..width) \X BOOLEAN :
                  ~OutOfBounds(grid, words[1], q[1], q[2], q[3]) } }

\* A candidate as scorePlacement reads it.
Scored(n, d) == [intersections |-> n, distanceFromCenter2 |-> d]

\* C27: on every grid of width and height at most 50, for every word, the
\* distanceFromCenter of an in-bounds candidate is below 100, and of two
\* candidates the one with more intersections has the strictly higher score:
\* the farthest candidate with more intersections still beats the nearest one
\* with fewer.
C27_IntersectionsDominateDistance ==
  pc = "scored" =>
    LET ds == InBoundsDistances
        farthest == CHOOSE d \in ds : \A e \in ds : e <= d
        nearest == CHOOSE d \in ds : \A e \in ds : d <= e
    IN  /\ \A d \in ds : d < 2 * 100
        /\ \A more \in 1..Len(words[1]) : \A fewer \in 0..(more - 1) :
              scorePlacement2(Scored(more, farthest)) >
                scorePlacement2(Scored(fewer, nearest))

\* C27 witness: a one-letter word on the 50 x 50 grid, where a candidate in a
\* corner is 49.5 from the center.
C27_Witness ==
  /\ pc = "scored"
  /\ width = LargestGrid
  /\ height = LargestGrid
  /\ Len(words[1]) = 1
  /\ DistanceFromCenter2(grid, words[1], 0, 0, TRUE) = 99

\* attemptPlacement(words, width, height, firstWordHorizontal) as a function of
\* its arguments. An attempt in progress is a record of grid, placements,
\* unplacedWords (stillUnplaced during a sweep) and madeProgress.
WithPlaced(s, word, best) ==
  [s EXCEPT !.grid = placeWord(@, word, best.row, best.col, best.isHorizontal),
            !.placements = Append(@, Committed(word, best)),
            !.madeProgress = TRUE]

RECURSIVE firstPassLoop(_, _, _, _)
\* "First pass: try to place all words in order", from word n (1-based) on.
firstPassLoop(ws, n, seedHorizontal, s) ==
  IF n > Len(ws) THEN s
  ELSE LET validPlacements ==
             findValidPlacements(s.grid, ws[n], s.placements,
                                 Len(s.placements) = 0, seedHorizontal)
       IN  firstPassLoop(ws, n + 1, seedHorizontal,
             IF Len(validPlacements) = 0
               THEN [s EXCEPT !.unplacedWords = Append(@, ws[n])]
               ELSE WithPlaced(s, ws[n], BestPlacement(validPlacements)))

RECURSIVE retrySweepLoop(_, _, _)
\* "for (const word of unplacedWords)" of one sweep, from word n on.
retrySweepLoop(bucket, n, s) ==
  IF n > Len(bucket) THEN s
  ELSE LET validPlacements ==
             findValidPlacements(s.grid, bucket[n], s.placements, FALSE, TRUE)
       IN  retrySweepLoop(bucket, n + 1,
             IF Len(validPlacements) = 0
               THEN [s EXCEPT !.unplacedWords = Append(@, bucket[n])]
               ELSE WithPlaced(s, bucket[n], BestPlacement(validPlacements)))

RECURSIVE retryLoop(_)
\* while (madeProgress && unplacedWords.length > 0) { ... }
retryLoop(s) ==
  IF s.madeProgress /\ Len(s.unplacedWords) > 0
    THEN retryLoop(retrySweepLoop(s.unplacedWords, 1,
                     [s EXCEPT !.unplacedWords = <<>>, !.madeProgress = FALSE]))
    ELSE s

attemptPlacement(ws, w, h, seedHorizontal) ==
  LET first == firstPassLoop(ws, 1, seedHorizontal,
                 [grid |-> createEmptyGrid(w, h), placements |-> <<>>,
                  unplacedWords |-> <<>>, madeProgress |-> TRUE])
      s == retryLoop([first EXCEPT !.madeProgress = TRUE])
  IN  [grid |-> s.grid, placements |-> s.placements,
       unplacedWords |-> s.unplacedWords]

\* The result of deterministic strategy n (1..4) for the arguments of the call.
SortedResult(n) ==
  attemptPlacement(IF n <= 2 THEN SortByLengthDesc(CleanWords(inputWords))
                             ELSE SortByLengthAsc(CleanWords(inputWords)),
                   width, height, SeedHorizontal(n))

\* C28: if one of the four deterministic strategies places every word, the
\* result returned is the result of the first of them that does, a function of
\* (words, width, height) alone: whatever the shuffles draw, two calls with the
\* same arguments return the same grid, placements and unplacedWords.
C28_ShufflesMatterOnlyIfNoSortedStrategyPlacesAll ==
  Done =>
    \A n \in 1..SortedStrategies :
      (/\ Len(SortedResult(n).unplacedWords) = 0
       /\ \A m \in 1..(n - 1) : Len(SortedResult(m).unplacedWords) > 0)
        => returned[1] = SortedResult(n)

\* C28 witness: the call returns after a shuffled attempt has run with a drawn
\* order that differs from both sorted orders, and what it returns is the
\* result of deterministic strategy 3 or 4, which placed every word.
C28_Witness ==
  /\ Done
  /\ strategy > SortedStrategies
  /\ shuffled # SortByLengthDesc(cleanedWords)
  /\ shuffled # SortByLengthAsc(cleanedWords)
  /\ bestFrom \in {3, 4}
  /\ Len(returned[1].unplacedWords) = 0

====
